---- MODULE Spec2Model ----
(***************************************************************************)
(* Model of the Maico WS Modbus client (custom_components/maicows):        *)
(* the transport client (maico_ws/client.py), the status aggregator        *)
(* (maico_ws/status.py) and the control operations (maico_ws/controls.py). *)
(*                                                                         *)
(* Units.  Python floats are modelled by integers:                         *)
(*   - a temperature passed to a control operation is given in hundredths  *)
(*     of a degree (18.0 degC is 1800, 17.9 degC is 1790);                 *)
(*   - a decoded decimal (raw / 10.0) is the record [tenths |-> raw], so   *)
(*     that it stays distinct from the plain integer raw;                  *)
(*   - a 32-bit counter is the record of its two 16-bit halves.            *)
(* A coroutine is cut at its awaits: the code between two awaits is one    *)
(* action.                                                                 *)
(***************************************************************************)
EXTENDS Integers, Sequences, FiniteSets, TLC

VARIABLES
    host,          \* MaicoWSClient._host (None or a host name)
    serial_port,   \* MaicoWSClient._serial_port (None or a device path)
    is_rtu,        \* MaicoWSClient._is_rtu
    transports,    \* every pymodbus client object constructed so far
    client,        \* MaicoWSClient._client: 0 (None) or an index of transports
    connected,     \* MaicoWSClient._connected
    connectRet,    \* what the last connect() returned
    regs,          \* the device's holding registers
    pollPc,        \* get_all_status(): "idle", "wait" (at an await) or "done"
    results,       \* get_all_status(): the local list results
    pollVia,       \* the transport the poll's request in flight was sent on
    pollLog,       \* requests the current/last poll sent to the pymodbus client
    pollAnswers,   \* how the pymodbus client answered each of them
    pollBase,      \* the call (its seq) that had returned when the poll began
    pollRet,       \* what the last get_all_status() returned
    ctlPc,         \* a primitive or control call: "idle", "wait" or "done"
    ctlCall,       \* the call: its name and argument
    ctlReq,        \* the request it has in flight
    ctlLog,        \* requests the current/last call sent to the pymodbus client
    ctlRet,        \* what the last call returned
    calls,         \* number of API calls started so far
    lastCall,      \* the API call started last
    entryState,    \* the config entry's ConfigEntryState
    hassData,      \* entry ids with a coordinator in hass.data[DOMAIN]
    platforms,     \* entry ids whose platforms have been set up
    setupPc,       \* async_setup_entry: "idle", "connected", "refresh", "forward"
    entryLog,      \* what async_setup_entry / async_unload_entry did, in order
    setups,        \* number of setup attempts so far
    flowStep,      \* the config flow: "none", the step whose form is shown, "done"
    flowErrors,    \* the errors["base"] of the form shown ("" for none)
    flowProbe,     \* how the last validate_input ended
    flowEntries,   \* the config entries created, by connection type
    submits,       \* number of forms submitted so far
    data,          \* MaicoCoordinator.data: what the last good update returned
    refreshPc,     \* the coordinator's refresh: "idle" or "wait" (on its poll)
    refreshes,     \* number of coordinator refreshes started so far
    entPc,         \* the entity handler: "idle", "power", "write", "done"
    entCall,       \* the entity handler called last, and its argument
    entLog,        \* what the handler did, in order
    actions        \* number of entity handlers called so far

vars == <<host, serial_port, is_rtu, transports, client, connected, connectRet,
          regs, pollPc, results, pollVia, pollLog, pollRet,
          pollAnswers, pollBase, ctlPc, ctlCall, ctlReq, ctlLog, ctlRet,
          calls, lastCall, entryState, hassData, platforms, setupPc, entryLog,
          setups, flowStep, flowErrors, flowProbe, flowEntries, submits,
          data, refreshPc, refreshes, entPc, entCall, entLog, actions>>

connVars == <<transports, client, connected, connectRet>>
cfgVars == <<host, serial_port, is_rtu>>
pollVars == <<pollPc, results, pollVia, pollLog, pollRet, pollAnswers, pollBase>>
callVars == <<calls, lastCall>>
ctlVars == <<ctlPc, ctlCall, ctlReq, ctlLog, ctlRet>>
entryVars == <<entryState, hassData, platforms, setupPc, entryLog, setups>>
flowVars == <<flowStep, flowErrors, flowProbe, flowEntries, submits>>
coordVars == <<data, refreshPc, refreshes>>
entVars == <<entPc, entCall, entLog, actions>>
uiVars == <<coordVars, entVars>>
haVars == <<entryVars, flowVars, uiVars>>

-----------------------------------------------------------------------------
(* Bounds of the model *)

\* API calls (connect, disconnect, poll, primitive, control) started in a run
MaxCalls == 3

\* setup attempts of the config entry in a run
MaxSetups == 3

\* config flow forms submitted in a run
MaxSubmits == 3

-----------------------------------------------------------------------------
(* Python values *)

None == [ok |-> FALSE, regs |-> <<>>]
Some(s) == [ok |-> TRUE, regs |-> s]

\* Python truthiness of "list | None": None and [] are falsy
Truthy(r) == r.ok /\ Len(r.regs) > 0

Tenths(n) == [tenths |-> n]

EmptyDict == [k \in {} |-> 0]

-----------------------------------------------------------------------------
(* Register map *)

MAX_INT_16BIT == 32767
VENTILATION_LEVEL_MIN == 0
VENTILATION_LEVEL_MAX == 4

\* the ten block reads of get_all_status, in program order
BlockStart == <<300, 650, 700, 750, 550, 800, 401, 150, 850, 109>>
BlockCount == <<3, 8, 8, 15, 5, 9, 4, 10, 10, 1>>
NumBlocks == Len(BlockStart)

\* registers the control operations write
ROOM_TEMP_SELECTION == 109
FILTER_DEVICE_MONTHS == 150
FILTER_OUTDOOR_MONTHS == 151
FILTER_ROOM_MONTHS == 152
FILTER_CHANGE_DEVICE == 157
FILTER_CHANGE_OUTDOOR == 158
FILTER_CHANGE_ROOM == 159
ROOM_TEMP_ADJUST == 300
SUPPLY_TEMP_MIN_COOL == 301
ROOM_TEMP_MAX == 302
ERROR_RESET == 405
OPERATION_MODE == 550
BOOST_VENTILATION == 551
SEASON == 552
TARGET_ROOM_TEMP == 553
VENTILATION_LEVEL == 554
ROOM_TEMP_EXT == 701
ROOM_TEMP_BUS == 707
HUMIDITY_BUS == 763
AIR_QUALITY_BUS == 764

\* control constants (controls.py); the two temperatures in hundredths of a degree
OPERATION_MODE_MAX == 5
TARGET_TEMP_MIN == 1800
TARGET_TEMP_MAX == 2500
ROOM_TEMP_SEL_MAX == 3
HUMIDITY_MAX == 100
AIR_QUALITY_MAX == 5000
FILTER_DEVICE_MIN == 3
FILTER_DEVICE_MAX == 12
FILTER_OUTDOOR_MIN == 3
FILTER_OUTDOOR_MAX == 18
FILTER_ROOM_MIN == 1
FILTER_ROOM_MAX == 6

RegAddrs ==
    UNION {BlockStart[i] .. (BlockStart[i] + BlockCount[i] - 1) : i \in 1..NumBlocks}
        \cup {ERROR_RESET}

Word == 0..65535

-----------------------------------------------------------------------------
(* Value codec *)

\* a reinterpretation that takes 32767 for a negative number
to_signed_early(value) == IF value >= MAX_INT_16BIT THEN value - 65536 ELSE value

\* MaicoWSClient.to_signed
to_signed(value) == IF value > MAX_INT_16BIT THEN value - 65536 ELSE value

\* the to_temp helper of _process_status_results: raw / 10.0 after the
\* two's-complement reinterpretation
to_temp(raw) == Tenths(IF raw > MAX_INT_16BIT THEN raw - 65536 ELSE raw)

\* MaicoWSClient.to_temp: to_signed(raw) / 10.0
MaicoWSClient_to_temp(raw) == Tenths(to_signed(raw))

\* the combine helper of _process_status_results: (hi << 16) | lo of two
\* 16-bit words, i.e. the integer hi * 65536 + lo, written by its two base-65536
\* digits (it does not fit the model checker's integers)
combine(hi, lo) == [hi16 |-> hi, lo16 |-> lo]

\* Python bool(int)
Bool(x) == x # 0

\* a lookup whose fallback drops the code
EnumGet_codeless(table, code) ==
    IF code \in DOMAIN table THEN table[code] ELSE "unknown"

\* dict.get(code, f"unknown_{code}")
EnumGet(table, code) ==
    IF code \in DOMAIN table THEN table[code] ELSE "unknown_" \o ToString(code)

mode_map == (0 :> "off") @@ (1 :> "manual") @@ (2 :> "auto_time")
            @@ (3 :> "auto_sensor") @@ (4 :> "eco_supply") @@ (5 :> "eco_extract")
season_map == (0 :> "winter") @@ (1 :> "summer")
room_sel_map == (0 :> "comfort_bde") @@ (1 :> "external") @@ (2 :> "internal")
                @@ (3 :> "bus")

-----------------------------------------------------------------------------
(* Status aggregator: _process_status_results, block by block.              *)
(* Each decode_* gives the keys its block stores in status; each *_raises   *)
(* tells when the block's code raises (IndexError on a short list,          *)
(* ValueError on the unpacking of the fault block).                         *)

\* 1. settings block (300-302)
decode_settings(b) ==
    IF Truthy(b)
    THEN ("room_temp_adjust" :> to_temp(b.regs[1]))
         @@ ("supply_temp_min_cool" :> b.regs[2])
         @@ ("room_temp_max" :> to_temp(b.regs[3]))
    ELSE EmptyDict
settings_raises(b) == Truthy(b) /\ Len(b.regs) < 3

\* 2. ventilation/fan block (650-657)
decode_vent(b) ==
    IF Truthy(b)
    THEN ("current_ventilation_level" :> b.regs[1])
         @@ ("supply_fan_speed" :> b.regs[2])
         @@ ("extract_fan_speed" :> b.regs[3])
         @@ ("current_supply_volume_flow" :> b.regs[4])
         @@ ("current_extract_volume_flow" :> b.regs[5])
         @@ ("filter_status" :> [filter_device_days |-> b.regs[6],
                                 filter_outdoor_days |-> b.regs[7],
                                 filter_room_days |-> b.regs[8]])
    ELSE EmptyDict
vent_raises(b) == Truthy(b) /\ Len(b.regs) < 8

\* 3. temperatures block (700-707); register 702 is skipped
decode_temp(b) ==
    IF Truthy(b)
    THEN ("room_temperature" :> to_temp(b.regs[1]))
         @@ ("room_temperature_ext" :> to_temp(b.regs[2]))
         @@ ("inlet_air_temperature" :> to_temp(b.regs[4]))
         @@ ("supply_air_temperature" :> to_temp(b.regs[5]))
         @@ ("extract_air_temperature" :> to_temp(b.regs[6]))
         @@ ("exhaust_air_temperature" :> to_temp(b.regs[7]))
         @@ ("room_temperature_bus" :> to_temp(b.regs[8]))
    ELSE EmptyDict
temp_raises(b) == Truthy(b) /\ Len(b.regs) < 8

\* a humidity block decoder that leaves the CO2 and VOC words unscaled
decode_hum_unscaled(b) ==
    IF Truthy(b)
    THEN ("extract_air_humidity" :> b.regs[1])
         @@ (IF Len(b.regs) > 4
             THEN ("humidity_sensor_1" :> b.regs[2]) @@ ("humidity_sensor_2" :> b.regs[3])
                  @@ ("humidity_sensor_3" :> b.regs[4]) @@ ("humidity_sensor_4" :> b.regs[5])
             ELSE EmptyDict)
         @@ (IF Len(b.regs) > 8
             THEN ("co2_sensor_1" :> Tenths(10 * b.regs[6])) @@ ("co2_sensor_2" :> Tenths(10 * b.regs[7]))
                  @@ ("co2_sensor_3" :> Tenths(10 * b.regs[8])) @@ ("co2_sensor_4" :> Tenths(10 * b.regs[9]))
             ELSE EmptyDict)
         @@ (IF Len(b.regs) > 12
             THEN ("voc_sensor_1" :> Tenths(10 * b.regs[10])) @@ ("voc_sensor_2" :> Tenths(10 * b.regs[11]))
                  @@ ("voc_sensor_3" :> Tenths(10 * b.regs[12])) @@ ("voc_sensor_4" :> Tenths(10 * b.regs[13]))
             ELSE EmptyDict)
         @@ (IF Len(b.regs) > 14
             THEN ("humidity_bus" :> b.regs[14]) @@ ("air_quality_bus" :> b.regs[15])
             ELSE EmptyDict)
    ELSE EmptyDict

\* 4. humidity, CO2, VOC block (750-764); sub-fields keyed off the length
decode_hum(b) ==
    IF Truthy(b)
    THEN ("extract_air_humidity" :> b.regs[1])
         @@ (IF Len(b.regs) > 4
             THEN ("humidity_sensor_1" :> b.regs[2]) @@ ("humidity_sensor_2" :> b.regs[3])
                  @@ ("humidity_sensor_3" :> b.regs[4]) @@ ("humidity_sensor_4" :> b.regs[5])
             ELSE EmptyDict)
         @@ (IF Len(b.regs) > 8
             THEN ("co2_sensor_1" :> Tenths(b.regs[6])) @@ ("co2_sensor_2" :> Tenths(b.regs[7]))
                  @@ ("co2_sensor_3" :> Tenths(b.regs[8])) @@ ("co2_sensor_4" :> Tenths(b.regs[9]))
             ELSE EmptyDict)
         @@ (IF Len(b.regs) > 12
             THEN ("voc_sensor_1" :> Tenths(b.regs[10])) @@ ("voc_sensor_2" :> Tenths(b.regs[11]))
                  @@ ("voc_sensor_3" :> Tenths(b.regs[12])) @@ ("voc_sensor_4" :> Tenths(b.regs[13]))
             ELSE EmptyDict)
         @@ (IF Len(b.regs) > 14
             THEN ("humidity_bus" :> b.regs[14]) @@ ("air_quality_bus" :> b.regs[15])
             ELSE EmptyDict)
    ELSE EmptyDict
hum_raises(b) == FALSE

\* 5. operation mode block (550-554)
decode_op(b) ==
    IF Truthy(b)
    THEN ("operation_mode" :> EnumGet(mode_map, b.regs[1]))
         @@ ("boost_ventilation" :> Bool(b.regs[2]))
         @@ ("season" :> EnumGet(season_map, b.regs[3]))
         @@ ("target_temperature" :> to_temp(b.regs[4]))
         @@ ("ventilation_level" :> b.regs[5])
    ELSE EmptyDict
op_raises(b) == Truthy(b) /\ Len(b.regs) < 5

\* 6. switch states block (800-808); the extended fields only if present
decode_switch(b) ==
    IF Truthy(b)
    THEN ("supply_fan_state" :> Bool(b.regs[1]))
         @@ ("extract_fan_state" :> Bool(b.regs[2]))
         @@ ("bypass_status" :> Bool(b.regs[3]))
         @@ ("ptc_heater" :> Bool(b.regs[4]))
         @@ (IF Len(b.regs) > 4 THEN "switch_contact" :> Bool(b.regs[5]) ELSE EmptyDict)
         @@ (IF Len(b.regs) > 5 THEN "post_heater_relay" :> Bool(b.regs[6]) ELSE EmptyDict)
         @@ (IF Len(b.regs) > 6 THEN "brine_pump" :> b.regs[7] ELSE EmptyDict)
         @@ (IF Len(b.regs) > 7 THEN "three_way_damper" :> b.regs[8] ELSE EmptyDict)
         @@ (IF Len(b.regs) > 8 THEN "zone_damper" :> b.regs[9] ELSE EmptyDict)
    ELSE EmptyDict
switch_raises(b) == Truthy(b) /\ Len(b.regs) < 4

\* a fault decoder that looks at the high words only
decode_fault_hi_only(b) ==
    IF Truthy(b)
    THEN ("fault_status" :>
             IF b.regs[1] = 0
             THEN "no_fault"
             ELSE "error_hi_" \o ToString(b.regs[1]) \o "_lo_" \o ToString(b.regs[2]))
         @@ ("info_messages" :>
             IF b.regs[3] = 0
             THEN "no_info"
             ELSE "info_hi_" \o ToString(b.regs[3]) \o "_lo_" \o ToString(b.regs[4]))
    ELSE EmptyDict

\* 7. faults/info block (401-404): unpacked into exactly four names
decode_fault(b) ==
    IF Truthy(b)
    THEN ("fault_status" :>
             IF b.regs[1] = 0 /\ b.regs[2] = 0
             THEN "no_fault"
             ELSE "error_hi_" \o ToString(b.regs[1]) \o "_lo_" \o ToString(b.regs[2]))
         @@ ("info_messages" :>
             IF b.regs[3] = 0 /\ b.regs[4] = 0
             THEN "no_info"
             ELSE "info_hi_" \o ToString(b.regs[3]) \o "_lo_" \o ToString(b.regs[4]))
    ELSE EmptyDict
fault_raises(b) == Truthy(b) /\ Len(b.regs) # 4

\* 8. filter/flow settings (150-159)
decode_filter_flow(b) ==
    IF Truthy(b)
    THEN ("filter_device_months" :> b.regs[1])
         @@ ("filter_outdoor_months" :> b.regs[2])
         @@ ("filter_room_months" :> b.regs[3])
         @@ ("filter_duration" :> b.regs[4])
         @@ ("volume_flow_reduced" :> b.regs[5])
         @@ ("volume_flow_normal" :> b.regs[6])
         @@ ("volume_flow_intensive" :> b.regs[7])
    ELSE EmptyDict
filter_flow_raises(b) == Truthy(b) /\ Len(b.regs) < 7

\* 9. operating hours (850-859)
decode_hours(b) ==
    IF Truthy(b)
    THEN ("hours_humidity" :> combine(b.regs[1], b.regs[2]))
         @@ ("hours_reduced" :> combine(b.regs[3], b.regs[4]))
         @@ ("hours_nominal" :> combine(b.regs[5], b.regs[6]))
         @@ ("hours_intensive" :> combine(b.regs[7], b.regs[8]))
         @@ ("hours_total" :> combine(b.regs[9], b.regs[10]))
    ELSE EmptyDict
hours_raises(b) == Truthy(b) /\ Len(b.regs) < 10

\* 10. room temp selection (109): an int or None, tested with "is not None"
decode_room_temp_sel(r) ==
    IF r.ok
    THEN "room_temp_selection" :> EnumGet(room_sel_map, r.regs[1])
    ELSE EmptyDict

\* status["power_state"] = status.get("operation_mode") != "off"
power_state(status) ==
    "power_state" :>
        (IF "operation_mode" \in DOMAIN status
         THEN status["operation_mode"] # "off"
         ELSE TRUE)

RetPending == [kind |-> "pending", status |-> EmptyDict]
RetNone == [kind |-> "none", status |-> EmptyDict]
RetRaise == [kind |-> "raise", status |-> EmptyDict]
RetSnapshot(status) == [kind |-> "snapshot", status |-> status]

\* StatusMixin._process_status_results: the returned dict, or the exception
\* that leaves it
process_status_results(res) ==
    IF \/ settings_raises(res[1]) \/ vent_raises(res[2]) \/ temp_raises(res[3])
       \/ hum_raises(res[4]) \/ op_raises(res[5]) \/ switch_raises(res[6])
       \/ fault_raises(res[7]) \/ filter_flow_raises(res[8]) \/ hours_raises(res[9])
    THEN RetRaise
    ELSE LET blocks == decode_settings(res[1]) @@ decode_vent(res[2])
                       @@ decode_temp(res[3]) @@ decode_hum(res[4])
                       @@ decode_op(res[5]) @@ decode_switch(res[6])
                       @@ decode_fault(res[7]) @@ decode_filter_flow(res[8])
                       @@ decode_hours(res[9]) @@ decode_room_temp_sel(res[10])
         IN RetSnapshot(blocks @@ power_state(blocks))

-----------------------------------------------------------------------------
(* The pymodbus client and the device behind it *)

\* how one exchange with the pymodbus client can end: a response, a response
\* with isError(), or a raised exception (ModbusException or any other)
Outcomes == {"ok", "error", "exception"}

\* a read response carries n registers, starting at the address asked for
Registers(address, n) == [k \in 1..n |-> regs[address + k - 1]]

\* a request can only be answered on a client object whose connection is open
CanAnswer(via) == via \in 1..Len(transports) /\ transports[via].open

ReadRequest(address, count) == [kind |-> "read", address |-> address, count |-> count]
WriteRequest(address, value) == [kind |-> "write", address |-> address, value |-> value]
NoRequest == [kind |-> "none"]

\* the answer to a request, as the pymodbus client gave it
Answer(outcome, n) == [ok |-> outcome = "ok", n |-> IF outcome = "ok" THEN n ELSE 0]

-----------------------------------------------------------------------------
(* MaicoWSClient: construction, connect, disconnect *)

Hosts == {"None", "192.168.1.50"}
SerialPorts == {"None", "/dev/ttyUSB0"}

\* MaicoWSClient.__init__: self._is_rtu = serial_port is not None
IsRtu(sp) == sp # "None"

\* words the device's registers hold when the client is constructed
DeviceWords == {0, 9, 65535}

\* the client as constructed, in front of a device holding one of contents
InitDevice(hs, sps, contents) ==
    /\ host \in hs
    /\ serial_port \in sps
    /\ is_rtu = IsRtu(serial_port)
    /\ transports = <<>>
    /\ client = 0
    /\ connected = FALSE
    /\ connectRet = "none"
    /\ regs \in contents
    /\ pollPc = "idle"
    /\ results = <<>>
    /\ pollVia = 0
    /\ pollLog = <<>>
    /\ pollAnswers = <<>>
    /\ pollBase = 0
    /\ pollRet = RetPending
    /\ ctlPc = "idle"
    /\ ctlCall = [op |-> "none", arg |-> 0, seq |-> 0]
    /\ ctlReq = [req |-> NoRequest, via |-> 0]
    /\ ctlLog = <<>>
    /\ ctlRet = [kind |-> "pending"]
    /\ calls = 0
    /\ lastCall = "none"
    /\ entryState = "not_loaded"
    /\ hassData = {}
    /\ platforms = {}
    /\ setupPc = "idle"
    /\ entryLog = <<>>
    /\ setups = 0
    /\ flowStep = "none"
    /\ flowErrors = ""
    /\ flowProbe = "none"
    /\ flowEntries = <<>>
    /\ submits = 0
    /\ data = RetNone
    /\ refreshPc = "idle"
    /\ refreshes = 0
    /\ entPc = "idle"
    /\ entCall = [entity |-> "none", handler |-> "none", arg |-> 0]
    /\ entLog = <<>>
    /\ actions = 0

\* a device whose registers all hold the same word
InitWith(hs, sps, words) ==
    InitDevice(hs, sps, {[a \in RegAddrs |-> w] : w \in words})

\* a TCP client, in front of a device whose registers are all zero
Init == InitWith({"192.168.1.50"}, {"None"}, {0})

\* the start of an API call
Call(name) ==
    /\ calls < MaxCalls
    /\ calls' = calls + 1
    /\ lastCall' = name

\* the pymodbus client object connect() constructs
NewTransport(rtu, outcome) ==
    [kind |-> IF rtu THEN "rtu" ELSE "tcp", open |-> outcome = "ok"]

\* the flag after connect(): set on success, otherwise left as it was
ConnectedAfterConnect(old, outcome) == IF outcome = "ok" THEN TRUE ELSE old

\* MaicoWSClient.connect; outcome: the pymodbus connect() returned True ("ok"),
\* returned False ("error") or raised ("exception")
connect(outcome) ==
    /\ Call("connect")
    /\ transports' = Append(transports, NewTransport(is_rtu, outcome))
    /\ client' = Len(transports) + 1
    /\ connected' = ConnectedAfterConnect(connected, outcome)
    /\ connectRet' = IF outcome = "ok" THEN "True" ELSE "False"
    /\ UNCHANGED <<cfgVars, regs, pollVars, ctlVars, haVars>>

\* a disconnect() that leaves the flag as it was
ConnectedAfterDisconnect_kept(old, c) == old

\* the flag after disconnect(): cleared only when a client object is held
ConnectedAfterDisconnect(old, c) == IF c # 0 THEN FALSE ELSE old

\* MaicoWSClient.disconnect
disconnect ==
    /\ Call("disconnect")
    /\ transports' = IF client # 0
                     THEN [transports EXCEPT ![client].open = FALSE]
                     ELSE transports
    /\ connected' = ConnectedAfterDisconnect(connected, client)
    /\ UNCHANGED <<cfgVars, client, connectRet, regs, pollVars, ctlVars, haVars>>

-----------------------------------------------------------------------------
(* MaicoWSClient read primitives, as get_all_status uses them *)

\* a read that takes an error response or an exception for data
read_holding_registers_result_unchecked(address, outcome, n) ==
    Some(Registers(address, n))

\* read_holding_registers after its await: list(response.registers), or None
\* on isError() and on any exception
read_holding_registers_result(address, outcome, n) ==
    IF outcome = "ok" THEN Some(Registers(address, n)) ELSE None

\* a single-register read that takes an error response or an exception for data
read_holding_register_result_unchecked(address, outcome, n) ==
    Some(<<regs[address]>>)

\* read_holding_register after its await: response.registers[0]; an empty
\* response raises IndexError inside the try, which returns None
read_holding_register_result(address, outcome, n) ==
    IF outcome = "ok" /\ n >= 1 THEN Some(<<regs[address]>>) ELSE None

-----------------------------------------------------------------------------
(* StatusMixin.get_all_status *)

\* the results list once every read still to come has returned None without
\* I/O (the client is not connected)
PadNone(res) == res \o [k \in 1..(NumBlocks - Len(res)) |-> None]

\* a poll whose reads go to the pymodbus client whatever the connection flag
PollContinue_unguarded(res, log) ==
    IF Len(res) < NumBlocks
    THEN /\ results' = res
         /\ pollLog' = Append(log, ReadRequest(BlockStart[Len(res) + 1],
                                               BlockCount[Len(res) + 1]))
         /\ pollVia' = client
         /\ pollPc' = "wait"
         /\ pollRet' = RetPending
    ELSE /\ results' = PadNone(res)
         /\ pollLog' = log
         /\ pollVia' = 0
         /\ pollPc' = "done"
         /\ pollRet' = process_status_results(PadNone(res))

\* a poll that gives up at the first block read that returned None
PollContinue_stop_on_failure(res, log) ==
    IF Len(res) < NumBlocks /\ connected /\ (Len(res) > 0 => res[Len(res)].ok)
    THEN /\ results' = res
         /\ pollLog' = Append(log, ReadRequest(BlockStart[Len(res) + 1],
                                               BlockCount[Len(res) + 1]))
         /\ pollVia' = client
         /\ pollPc' = "wait"
         /\ pollRet' = RetPending
    ELSE /\ results' = PadNone(res)
         /\ pollLog' = log
         /\ pollVia' = 0
         /\ pollPc' = "done"
         /\ pollRet' = process_status_results(PadNone(res))

\* the poll's code from one await to the next: with the results so far,
\* either the next block read sends its request, or the reads are over and
\* _process_status_results makes the return value
PollContinue(res, log) ==
    IF Len(res) < NumBlocks /\ connected
    THEN /\ results' = res
         /\ pollLog' = Append(log, ReadRequest(BlockStart[Len(res) + 1],
                                               BlockCount[Len(res) + 1]))
         /\ pollVia' = client
         /\ pollPc' = "wait"
         /\ pollRet' = RetPending
    ELSE /\ results' = PadNone(res)
         /\ pollLog' = log
         /\ pollVia' = 0
         /\ pollPc' = "done"
         /\ pollRet' = process_status_results(PadNone(res))

\* the body of get_all_status up to its first await
get_all_status_begin ==
    /\ pollPc \in {"idle", "done"}
    /\ pollAnswers' = <<>>
    /\ pollBase' = IF ctlPc = "done" THEN ctlCall.seq ELSE 0
    /\ IF ~connected
       THEN /\ results' = <<>>
            /\ pollLog' = <<>>
            /\ pollVia' = 0
            /\ pollPc' = "done"
            /\ pollRet' = RetNone
       ELSE PollContinue(<<>>, <<>>)

\* get_all_status up to its first await, called through the API
get_all_status ==
    /\ Call("get_all_status")
    /\ get_all_status_begin
    /\ UNCHANGED <<cfgVars, connVars, regs, ctlVars, haVars>>

\* get_all_status resumed with the answer to the block read in flight:
\* the outcome of the exchange and, for a response, its number of registers
get_all_status_resume(outcome, n) ==
    /\ pollPc = "wait"
    /\ outcome = "ok" => CanAnswer(pollVia)
    /\ pollAnswers' = Append(pollAnswers, Answer(outcome, n))
    /\ LET i == Len(results) + 1
           r == IF i < NumBlocks
                THEN read_holding_registers_result(BlockStart[i], outcome, n)
                ELSE read_holding_register_result(BlockStart[i], outcome, n)
       IN PollContinue(Append(results, r), pollLog)
    /\ UNCHANGED <<cfgVars, connVars, regs, ctlVars, callVars, pollBase, haVars>>

\* the reads of a poll answer in full or fail
PollNext ==
    \/ get_all_status
    \/ \E o \in Outcomes :
          get_all_status_resume(o, BlockCount[Len(results) + 1])

NextPoll ==
    \/ \E o \in Outcomes : connect(o)
    \/ disconnect
    \/ PollNext

\* a TCP client, in front of a device with any of the register contents
InitPoll == InitWith({"192.168.1.50"}, {"None"}, DeviceWords)

\* polls whose reads fail in every combination
SpecPoll == InitPoll /\ [][NextPoll]_vars

-----------------------------------------------------------------------------
(* MaicoWSClient primitives called directly, and ControlsMixin *)

RetBool(b) == [kind |-> "bool", value |-> b]
RetRead(r) == [kind |-> "read", value |-> r]

\* a call that returns before any await
CtlReturn(ret) ==
    /\ ctlPc' = "done"
    /\ ctlReq' = [req |-> NoRequest, via |-> 0]
    /\ ctlLog' = <<>>
    /\ ctlRet' = ret

\* a call that sends req to the pymodbus client and awaits the answer
CtlSend(req) ==
    /\ ctlPc' = "wait"
    /\ ctlReq' = [req |-> req, via |-> client]
    /\ ctlLog' = <<req>>
    /\ ctlRet' = [kind |-> "pending"]

\* a write_register without the "not connected" early return
write_register_call_unguarded(register, value) ==
    CtlSend(WriteRequest(register, value))

\* MaicoWSClient.write_register up to its await
write_register_call(register, value) ==
    IF ~connected
    THEN CtlReturn(RetBool(FALSE))
    ELSE CtlSend(WriteRequest(register, value))

\* MaicoWSClient.read_holding_registers (and read_holding_register, with
\* count 1) up to its await
read_call(register, count) ==
    IF ~connected
    THEN CtlReturn(RetRead(None))
    ELSE CtlSend(ReadRequest(register, count))

\* the start of a call of the API: op names it, arg is its argument
CtlCall(op, arg) ==
    /\ ctlPc \in {"idle", "done"}
    /\ Call(op)
    /\ ctlCall' = [op |-> op, arg |-> arg, seq |-> calls + 1]
    /\ UNCHANGED <<cfgVars, connVars, regs, pollVars, haVars>>

\* a control operation: validation, then exactly one write_register
Control(op, arg, valid, register, raw) ==
    /\ CtlCall(op, arg)
    /\ IF ~valid
       THEN CtlReturn(RetBool(FALSE))
       ELSE write_register_call(register, raw)

\* int(x) of a float given in hundredths -> in units of scale hundredths:
\* truncation toward zero
Trunc(c, scale) == IF c >= 0 THEN c \div scale ELSE -((-c) \div scale)

\* round(x) of the float c/50 (Python rounds halves to the even integer)
RoundHalfEven50(c) ==
    LET q == c \div 50
        r == c % 50
    IN IF r < 25 THEN q
       ELSE IF r > 25 THEN q + 1
       ELSE IF q % 2 = 0 THEN q ELSE q + 1

\* range checks that let the first value above the maximum through
ventilation_level_valid_inclusive(level) ==
    ~(level < VENTILATION_LEVEL_MIN \/ level > VENTILATION_LEVEL_MAX + 1)
target_room_temperature_valid_inclusive(temp) ==
    ~(temp < TARGET_TEMP_MIN \/ temp > TARGET_TEMP_MAX + 50)
\* a supply temperature scaled to tenths, as register 302 is
supply_temp_min_cool_raw_tenths(temp) == Trunc(temp, 10)

operation_mode_valid(mode) == ~(mode < 0 \/ mode > OPERATION_MODE_MAX)
ventilation_level_valid(level) ==
    ~(level < VENTILATION_LEVEL_MIN \/ level > VENTILATION_LEVEL_MAX)
target_room_temperature_valid(temp) == ~(temp < TARGET_TEMP_MIN \/ temp > TARGET_TEMP_MAX)
\* int(round(temp * 2) / 2 * 10)
target_room_temperature_raw(temp) == RoundHalfEven50(temp) * 5
\* write_supply_temp_min_cool checks nothing; int(temp)
supply_temp_min_cool_valid(temp) == TRUE
supply_temp_min_cool_raw(temp) == Trunc(temp, 100)
\* write_room_temp_max, write_external_room_temp, write_bus_room_temp check
\* nothing; int(temp * 10)
temp_tenths_raw(temp) == Trunc(temp, 10)
season_valid(season) == season \in {0, 1}
room_temp_selection_valid(selection) == ~(selection < 0 \/ selection > ROOM_TEMP_SEL_MAX)
bus_humidity_valid(humidity) == ~(humidity < 0 \/ humidity > HUMIDITY_MAX)
bus_air_quality_valid(ppm) == ~(ppm < 0 \/ ppm > AIR_QUALITY_MAX)
filter_device_months_valid(months) ==
    ~(months < FILTER_DEVICE_MIN \/ months > FILTER_DEVICE_MAX)
filter_outdoor_months_valid(months) ==
    ~(months < FILTER_OUTDOOR_MIN \/ months > FILTER_OUTDOOR_MAX)
filter_room_months_valid(months) ==
    ~(months < FILTER_ROOM_MIN \/ months > FILTER_ROOM_MAX)

set_operation_mode(mode) ==
    Control("set_operation_mode", mode, operation_mode_valid(mode),
            OPERATION_MODE, mode)
set_ventilation_level(level) ==
    Control("set_ventilation_level", level, ventilation_level_valid(level),
            VENTILATION_LEVEL, level)
set_target_room_temperature(temp) ==
    Control("set_target_room_temperature", temp, target_room_temperature_valid(temp),
            TARGET_ROOM_TEMP, target_room_temperature_raw(temp))
write_supply_temp_min_cool(temp) ==
    Control("write_supply_temp_min_cool", temp, supply_temp_min_cool_valid(temp),
            SUPPLY_TEMP_MIN_COOL, supply_temp_min_cool_raw(temp))
write_room_temp_max(temp) ==
    Control("write_room_temp_max", temp, TRUE, ROOM_TEMP_MAX, temp_tenths_raw(temp))
set_season(season) ==
    Control("set_season", season, season_valid(season), SEASON, season)
set_boost_ventilation(active) ==
    Control("set_boost_ventilation", active, TRUE, BOOST_VENTILATION,
            IF active THEN 1 ELSE 0)
reset_filter_device ==
    Control("reset_filter_device", 0, TRUE, FILTER_CHANGE_DEVICE, 1)
reset_filter_outdoor ==
    Control("reset_filter_outdoor", 0, TRUE, FILTER_CHANGE_OUTDOOR, 1)
reset_filter_room ==
    Control("reset_filter_room", 0, TRUE, FILTER_CHANGE_ROOM, 1)
reset_error ==
    Control("reset_error", 0, TRUE, ERROR_RESET, 1)
set_room_temp_selection(selection) ==
    Control("set_room_temp_selection", selection, room_temp_selection_valid(selection),
            ROOM_TEMP_SELECTION, selection)
write_external_room_temp(temp) ==
    Control("write_external_room_temp", temp, TRUE, ROOM_TEMP_EXT, temp_tenths_raw(temp))
write_bus_room_temp(temp) ==
    Control("write_bus_room_temp", temp, TRUE, ROOM_TEMP_BUS, temp_tenths_raw(temp))
write_bus_humidity(humidity) ==
    Control("write_bus_humidity", humidity, bus_humidity_valid(humidity),
            HUMIDITY_BUS, humidity)
write_bus_air_quality(ppm) ==
    Control("write_bus_air_quality", ppm, bus_air_quality_valid(ppm),
            AIR_QUALITY_BUS, ppm)
set_filter_device_months(months) ==
    Control("set_filter_device_months", months, filter_device_months_valid(months),
            FILTER_DEVICE_MONTHS, months)
set_filter_outdoor_months(months) ==
    Control("set_filter_outdoor_months", months, filter_outdoor_months_valid(months),
            FILTER_OUTDOOR_MONTHS, months)
set_filter_room_months(months) ==
    Control("set_filter_room_months", months, filter_room_months_valid(months),
            FILTER_ROOM_MONTHS, months)

\* MaicoWS.write_ventilation_level of maico_ws_api.py: the connection is
\* checked first, then the level, then one write
write_ventilation_level(level) ==
    /\ CtlCall("write_ventilation_level", level)
    /\ IF ~connected
       THEN CtlReturn(RetBool(FALSE))
       ELSE IF ~ventilation_level_valid(level)
            THEN CtlReturn(RetBool(FALSE))
            ELSE CtlSend(WriteRequest(VENTILATION_LEVEL, level))

\* the primitives, called directly
write_register(register, value) ==
    /\ CtlCall("write_register", value)
    /\ write_register_call(register, value)
read_holding_registers(register, count) ==
    /\ CtlCall("read_holding_registers", count)
    /\ read_call(register, count)
read_holding_register(register) ==
    /\ CtlCall("read_holding_register", 1)
    /\ read_call(register, 1)

\* the pymodbus client packs a register value into 16 unsigned bits; any other
\* value makes its write_register raise
Encodable(req) == req.kind = "write" => req.value \in Word

\* the number of registers a request asks for
ReqCount(req) == IF req.kind = "read" THEN req.count ELSE 0

\* a call that reports success whatever the answer to its write was
ctl_result_optimistic(req, outcome, n) ==
    IF req.kind = "write"
    THEN RetBool(TRUE)
    ELSE RetRead(read_holding_registers_result(req.address, outcome, n))

\* what the call returns after its await
ctl_result(req, outcome, n) ==
    IF req.kind = "write"
    THEN RetBool(outcome = "ok")
    ELSE IF ctlCall.op = "read_holding_register"
         THEN RetRead(read_holding_register_result(req.address, outcome, n))
         ELSE RetRead(read_holding_registers_result(req.address, outcome, n))

\* the call resumed with the answer to its request; an acknowledged write
\* has changed the device's register
ctl_resume(outcome, n) ==
    /\ ctlPc = "wait"
    /\ outcome = "ok" => CanAnswer(ctlReq.via) /\ Encodable(ctlReq.req)
    /\ ctlPc' = "done"
    /\ ctlRet' = ctl_result(ctlReq.req, outcome, n)
    /\ regs' = IF ctlReq.req.kind = "write" /\ outcome = "ok"
                  /\ ctlReq.req.address \in RegAddrs
               THEN [regs EXCEPT ![ctlReq.req.address] = ctlReq.req.value]
               ELSE regs
    /\ UNCHANGED <<cfgVars, connVars, pollVars, ctlCall, ctlReq, ctlLog, callVars, haVars>>

\* what a conversion helper returns
RetInt(n) == [kind |-> "int", value |-> n]
RetTemp(t) == [kind |-> "temp", value |-> t]

\* the static helpers and the aggregator's private to_temp, applied to the
\* word a register of the device holds
to_signed_call(register) ==
    /\ CtlCall("to_signed", regs[register])
    /\ CtlReturn(RetInt(to_signed(regs[register])))
MaicoWSClient_to_temp_call(register) ==
    /\ CtlCall("MaicoWSClient.to_temp", regs[register])
    /\ CtlReturn(RetTemp(MaicoWSClient_to_temp(regs[register])))
to_temp_call(register) ==
    /\ CtlCall("to_temp", regs[register])
    /\ CtlReturn(RetTemp(to_temp(regs[register])))

NextCodec ==
    \/ to_signed_call(ROOM_TEMP_EXT)
    \/ MaicoWSClient_to_temp_call(ROOM_TEMP_EXT)
    \/ to_temp_call(ROOM_TEMP_EXT)

\* a device whose registers hold any 16-bit word
InitCodec == InitWith({"192.168.1.50"}, {"None"}, Word)

\* the conversions of every 16-bit word
SpecCodec == InitCodec /\ [][NextCodec]_vars

\* arguments the calls are made with: each domain's bounds and their neighbours
ModeArgs == {-1, 0, 5, 6}
LevelArgs == {-1, 0, 4, 5}
TargetTempArgs == {1790, 1800, 2125, 2500, 2550}
SupplyTempArgs == {700, 1500, 1550, 3000}
RoomTempMaxArgs == {1500, 1505, 3000}
BusTempArgs == {-2000, 2150}
SeasonArgs == {-1, 0, 1, 2}
SelectionArgs == {-1, 0, 3, 4}
HumidityArgs == {-1, 0, 100, 101}
AirQualityArgs == {-1, 0, 5000, 5001}
FilterDeviceArgs == {2, 3, 12, 13}
FilterOutdoorArgs == {2, 3, 18, 19}
FilterRoomArgs == {0, 1, 6, 7}
RawArgs == {-30, 30}

ControlNext ==
    \/ \E mode \in ModeArgs : set_operation_mode(mode)
    \/ \E level \in LevelArgs : set_ventilation_level(level)
    \/ \E temp \in TargetTempArgs : set_target_room_temperature(temp)
    \/ \E temp \in SupplyTempArgs : write_supply_temp_min_cool(temp)
    \/ \E temp \in RoomTempMaxArgs : write_room_temp_max(temp)
    \/ \E season \in SeasonArgs : set_season(season)
    \/ \E active \in BOOLEAN : set_boost_ventilation(active)
    \/ reset_filter_device
    \/ reset_filter_outdoor
    \/ reset_filter_room
    \/ reset_error
    \/ \E selection \in SelectionArgs : set_room_temp_selection(selection)
    \/ \E temp \in BusTempArgs : write_external_room_temp(temp)
    \/ \E temp \in BusTempArgs : write_bus_room_temp(temp)
    \/ \E humidity \in HumidityArgs : write_bus_humidity(humidity)
    \/ \E ppm \in AirQualityArgs : write_bus_air_quality(ppm)
    \/ \E months \in FilterDeviceArgs : set_filter_device_months(months)
    \/ \E months \in FilterOutdoorArgs : set_filter_outdoor_months(months)
    \/ \E months \in FilterRoomArgs : set_filter_room_months(months)
    \/ \E level \in LevelArgs : write_ventilation_level(level)

PrimitiveNext ==
    \/ \E value \in RawArgs : write_register(ROOM_TEMP_ADJUST, value)
    \/ read_holding_registers(ROOM_TEMP_ADJUST, 3)
    \/ read_holding_register(ROOM_TEMP_SELECTION)

\* the reads of a poll all answer in full
PollOkNext ==
    \/ get_all_status
    \/ get_all_status_resume("ok", BlockCount[Len(results) + 1])

Next ==
    \/ \E o \in Outcomes : connect(o)
    \/ disconnect
    \/ ControlNext
    \/ PrimitiveNext
    \/ \E o \in Outcomes : ctl_resume(o, ReqCount(ctlReq.req))
    \/ PollOkNext

\* the whole API with every poll read answered in full
Spec == Init /\ [][Next]_vars

\* connection handling, for every way of constructing the client
NextConn ==
    \/ \E o \in Outcomes : connect(o)
    \/ disconnect
    \/ PrimitiveNext
    \/ \E o \in Outcomes : ctl_resume(o, ReqCount(ctlReq.req))

InitConn == InitWith(Hosts, SerialPorts, {0})

SpecConn == InitConn /\ [][NextConn]_vars

-----------------------------------------------------------------------------
(* The integration: async_setup_entry and async_unload_entry (__init__.py).  *)
(* Each setup attempt builds a new MaicoWS; Home Assistant turns a raised    *)
(* ConfigEntryNotReady into the state SETUP_RETRY and a True return into     *)
(* LOADED.                                                                   *)

EntryId == "test_entry_id"

\* a setup that goes on to the first refresh whatever connect() returned
async_setup_entry_unchecked(outcome) ==
    /\ entryState \in {"not_loaded", "setup_retry"}
    /\ setupPc = "idle"
    /\ setups < MaxSetups
    /\ setups' = setups + 1
    /\ transports' = Append(transports, NewTransport(is_rtu, outcome))
    /\ client' = Len(transports) + 1
    /\ connected' = ConnectedAfterConnect(FALSE, outcome)
    /\ connectRet' = IF outcome = "ok" THEN "True" ELSE "False"
    /\ entryState' = "setup_in_progress"
    /\ setupPc' = "connected"
    /\ entryLog' = Append(entryLog, "connect")
    /\ UNCHANGED <<cfgVars, regs, pollVars, ctlVars, callVars, hassData, platforms,
                   flowVars, uiVars>>

\* async_setup_entry up to the return of its connect(): a new client object,
\* and ConfigEntryNotReady when connect() returned False or raised
async_setup_entry(outcome) ==
    /\ entryState \in {"not_loaded", "setup_retry"}
    /\ setupPc = "idle"
    /\ setups < MaxSetups
    /\ setups' = setups + 1
    /\ transports' = Append(transports, NewTransport(is_rtu, outcome))
    /\ client' = Len(transports) + 1
    /\ connected' = ConnectedAfterConnect(FALSE, outcome)
    /\ connectRet' = IF outcome = "ok" THEN "True" ELSE "False"
    /\ IF outcome = "ok"
       THEN /\ entryState' = "setup_in_progress"
            /\ setupPc' = "connected"
            /\ entryLog' = Append(entryLog, "connect")
       ELSE /\ entryState' = "setup_retry"
            /\ setupPc' = "idle"
            /\ entryLog' = entryLog \o <<"connect", "not_ready">>
    /\ UNCHANGED <<cfgVars, regs, pollVars, ctlVars, callVars, hassData, platforms,
                   flowVars, uiVars>>

\* MaicoCoordinator is created and async_config_entry_first_refresh calls
\* _async_update_data, which awaits get_all_status()
async_config_entry_first_refresh ==
    /\ setupPc = "connected"
    /\ get_all_status_begin
    /\ setupPc' = "refresh"
    /\ entryLog' = Append(entryLog, "first_refresh")
    /\ data' = RetNone
    /\ UNCHANGED <<cfgVars, connVars, regs, ctlVars, callVars, entryState, hassData,
                   platforms, setups, flowVars, refreshPc, refreshes, entVars>>

\* the first refresh is over: without data (None makes UpdateFailed, an
\* exception is caught by the coordinator) the setup is not ready; with data
\* the coordinator is stored and the setup awaits the platforms
async_setup_entry_store ==
    /\ setupPc = "refresh"
    /\ pollPc = "done"
    /\ IF pollRet.kind = "snapshot"
       THEN /\ hassData' = hassData \cup {EntryId}
            /\ setupPc' = "forward"
            /\ entryLog' = Append(entryLog, "store")
            /\ data' = pollRet
            /\ UNCHANGED entryState
       ELSE /\ entryState' = "setup_retry"
            /\ setupPc' = "idle"
            /\ entryLog' = Append(entryLog, "not_ready")
            /\ UNCHANGED <<hassData, data>>
    /\ UNCHANGED <<cfgVars, connVars, regs, pollVars, ctlVars, callVars, platforms,
                   setups, flowVars, refreshPc, refreshes, entVars>>

\* async_forward_entry_setups has returned and async_setup_entry returns True
async_setup_entry_finish ==
    /\ setupPc = "forward"
    /\ setupPc' = "idle"
    /\ platforms' = platforms \cup {EntryId}
    /\ entryState' = "loaded"
    /\ entryLog' = Append(entryLog, "forward")
    /\ UNCHANGED <<cfgVars, connVars, regs, pollVars, ctlVars, callVars, hassData,
                   setups, flowVars, uiVars>>

\* an unload that forgets the coordinator without disconnecting its client
async_unload_entry_no_disconnect ==
    /\ entryState = "loaded"
    /\ EntryId \in hassData
    /\ hassData' = hassData \ {EntryId}
    /\ platforms' = platforms \ {EntryId}
    /\ entryState' = "not_loaded"
    /\ entryLog' = entryLog \o <<"pop", "unload">>
    /\ UNCHANGED <<cfgVars, connVars, regs, pollVars, ctlVars, callVars,
                   setupPc, setups, flowVars, uiVars>>

\* async_unload_entry: disconnect the stored coordinator's client, pop the
\* coordinator, unload the platforms
async_unload_entry ==
    /\ entryState = "loaded"
    /\ EntryId \in hassData
    /\ transports' = IF client # 0
                     THEN [transports EXCEPT ![client].open = FALSE]
                     ELSE transports
    /\ connected' = ConnectedAfterDisconnect(connected, client)
    /\ hassData' = hassData \ {EntryId}
    /\ platforms' = platforms \ {EntryId}
    /\ entryState' = "not_loaded"
    /\ entryLog' = entryLog \o <<"disconnect", "pop", "unload">>
    /\ UNCHANGED <<cfgVars, client, connectRet, regs, pollVars, ctlVars, callVars,
                   setupPc, setups, flowVars, uiVars>>

NextEntry ==
    \/ \E o \in Outcomes : async_setup_entry(o)
    \/ async_config_entry_first_refresh
    \/ \E o \in Outcomes :
          get_all_status_resume(o, BlockCount[Len(results) + 1])
    \/ async_setup_entry_store
    \/ async_setup_entry_finish
    \/ async_unload_entry

\* an entry for a TCP or a serial device
InitEntry ==
    \/ InitWith({"192.168.1.50"}, {"None"}, {0})
    \/ InitWith({"None"}, {"/dev/ttyUSB0"}, {0})

\* the life of one config entry
SpecEntry == InitEntry /\ [][NextEntry]_vars
-----------------------------------------------------------------------------
(* The coordinator's refreshes (MaicoCoordinator._async_update_data): each   *)
(* awaits get_all_status(); Home Assistant's DataUpdateCoordinator keeps the *)
(* returned mapping as .data and, on UpdateFailed or any other exception,    *)
(* keeps the data it had.                                                    *)

\* coordinator refreshes started in a run
MaxRefreshes == 2

\* block reads that fail in a run of refreshes
MaxFailedReads == 1

\* a refresh that adds the new mapping's keys to the data it had
async_update_data_merging ==
    /\ refreshPc = "wait"
    /\ pollPc = "done"
    /\ refreshPc' = "idle"
    /\ data' = IF pollRet.kind = "snapshot"
               THEN RetSnapshot(pollRet.status @@ data.status)
               ELSE data
    /\ UNCHANGED <<cfgVars, connVars, regs, pollVars, ctlVars, callVars, entryVars,
                   flowVars, refreshes, entVars>>

\* a refresh of the stored coordinator begins: _async_update_data up to the
\* first await of get_all_status()
async_refresh ==
    /\ EntryId \in hassData
    /\ refreshPc = "idle"
    /\ refreshes < MaxRefreshes
    /\ refreshes' = refreshes + 1
    /\ refreshPc' = "wait"
    /\ get_all_status_begin
    /\ UNCHANGED <<cfgVars, connVars, regs, ctlVars, callVars, entryVars, flowVars,
                   data, entVars>>

\* get_all_status() has returned to _async_update_data: a mapping becomes the
\* coordinator's data; None raises UpdateFailed, and an exception leaves too
async_update_data ==
    /\ refreshPc = "wait"
    /\ pollPc = "done"
    /\ refreshPc' = "idle"
    /\ data' = IF pollRet.kind = "snapshot" THEN pollRet ELSE data
    /\ UNCHANGED <<cfgVars, connVars, regs, pollVars, ctlVars, callVars, entryVars,
                   flowVars, refreshes, entVars>>

\* the reads of a refresh answer in full, or fail while the run's failures last
RefreshPollNext ==
    \/ get_all_status_resume("ok", BlockCount[Len(results) + 1])
    \/ /\ Cardinality({i \in 1..Len(pollAnswers) : ~pollAnswers[i].ok}) < MaxFailedReads
       /\ get_all_status_resume("error", BlockCount[Len(results) + 1])

NextRefresh ==
    \/ async_setup_entry("ok")
    \/ async_config_entry_first_refresh
    \/ async_setup_entry_store
    \/ async_setup_entry_finish
    \/ async_refresh
    \/ async_update_data
    \/ RefreshPollNext

\* a loaded entry whose coordinator refreshes, with some block reads failing
SpecRefresh == InitWith({"192.168.1.50"}, {"None"}, {0, 9}) /\ [][NextRefresh]_vars

-----------------------------------------------------------------------------
(* Polls in front of a device that answers a block read with fewer          *)
(* registers than were asked for.                                           *)

\* block reads of one poll that are answered short
MaxShortReads == 1

\* the answers so far that failed, and those that came short
FailedSoFar == {i \in 1..Len(pollAnswers) : ~pollAnswers[i].ok}
ShortSoFar ==
    {i \in 1..Len(pollAnswers) : pollAnswers[i].ok /\ pollAnswers[i].n < BlockCount[i]}

\* a block read is answered in full, fails, or is answered with any smaller
\* number of registers, none included
ShortPollNext ==
    \/ get_all_status
    \/ get_all_status_resume("ok", BlockCount[Len(results) + 1])
    \/ /\ Cardinality(FailedSoFar) < MaxFailedReads
       /\ get_all_status_resume("error", BlockCount[Len(results) + 1])
    \/ /\ pollPc = "wait"
       /\ Cardinality(ShortSoFar) < MaxShortReads
       /\ \E n \in 0..(BlockCount[Len(results) + 1] - 1) :
             get_all_status_resume("ok", n)

NextShort ==
    \/ connect("ok")
    \/ ShortPollNext

\* a TCP client, in front of a device whose registers all hold 9
SpecShort == InitWith({"192.168.1.50"}, {"None"}, {9}) /\ [][NextShort]_vars

-----------------------------------------------------------------------------
(* The entities (climate.py, select.py, number.py, fan.py). Their _api is    *)
(* coordinator.api, the object async_setup_entry built: an instance of       *)
(* MaicoWS of maico_ws_api.py. A handler that calls a method this class does *)
(* not define ends with an AttributeError before anything is written.        *)

\* entity handlers called in a run
MaxActions == 2

\* the writing methods class MaicoWS of maico_ws_api.py defines
MaicoWS_methods ==
    {"write_season", "write_filter_change_device", "write_filter_change_outdoor",
     "write_filter_change_room", "write_supply_temp_min_cool",
     "write_max_room_temperature", "write_target_room_temperature",
     "write_operation_mode", "write_power_state", "write_ventilation_level",
     "write_boost_ventilation", "trigger_error_reset", "write_register_value"}

\* round(x) of the float c/100 (Python rounds halves to the even integer)
RoundHalfEven100(c) ==
    LET q == c \div 100
        r == c % 100
    IN IF r < 50 THEN q
       ELSE IF r > 50 THEN q + 1
       ELSE IF q % 2 = 0 THEN q ELSE q + 1

\* what a writing method of maico_ws_api.py that an entity calls checks and
\* writes: write_supply_temp_min_cool writes round(temperature) to 301,
\* write_ventilation_level a level 0..4 to 554, write_power_state 1 or 0 to 550
api_write(method, arg) ==
    CASE method = "write_supply_temp_min_cool" ->
            [valid |-> TRUE, register |-> SUPPLY_TEMP_MIN_COOL,
             value |-> RoundHalfEven100(arg)]
      [] method = "write_ventilation_level" ->
            [valid |-> ventilation_level_valid(arg), register |-> VENTILATION_LEVEL,
             value |-> arg]
      [] method = "write_power_state" ->
            [valid |-> TRUE, register |-> OPERATION_MODE,
             value |-> IF arg = 1 THEN 1 ELSE 0]

\* an entity calls a writing method of its _api: the connection is checked,
\* then the argument, then one write goes to the pymodbus client
api_call(method, arg) ==
    /\ ctlPc \in {"idle", "done"}
    /\ Call(method)
    /\ ctlCall' = [op |-> method, arg |-> arg, seq |-> calls + 1]
    /\ IF ~connected \/ ~api_write(method, arg).valid
       THEN CtlReturn(RetBool(FALSE))
       ELSE CtlSend(WriteRequest(api_write(method, arg).register,
                                 api_write(method, arg).value))

\* a handler of an entity of the loaded entry is called
EntityStart(entity, handler, arg) ==
    /\ EntryId \in platforms
    /\ entPc \in {"idle", "done"}
    /\ ctlPc \in {"idle", "done"}
    /\ actions < MaxActions
    /\ actions' = actions + 1
    /\ entCall' = [entity |-> entity, handler |-> handler, arg |-> arg]
    /\ UNCHANGED <<cfgVars, connVars, regs, pollVars, entryVars, flowVars, coordVars>>

\* the handler ends without calling the API: it raised err or returned early
EntityEnd(err) ==
    /\ entPc' = "done"
    /\ entLog' = <<err>>
    /\ UNCHANGED <<ctlVars, callVars>>

\* a handler with one control write: error is how it turns its argument down
\* ("" when it accepts it), method the method of _api it awaits with marg
EntityWrite(entity, handler, arg, error, method, marg) ==
    /\ EntityStart(entity, handler, arg)
    /\ IF error # ""
       THEN EntityEnd(error)
       ELSE IF method \notin MaicoWS_methods
            THEN EntityEnd("AttributeError")
            ELSE /\ entPc' = "write"
                 /\ entLog' = <<method>>
                 /\ api_call(method, marg)

\* a handler that asks for a refresh whatever its write returned
entity_write_return_always ==
    /\ entPc = "write"
    /\ ctlPc = "done"
    /\ entPc' = "done"
    /\ entLog' = Append(entLog, "refresh")
    /\ UNCHANGED <<cfgVars, connVars, regs, pollVars, ctlVars, callVars, entryVars,
                   flowVars, coordVars, entCall, actions>>

\* the awaited write has returned to the handler: "if success: await
\* self.coordinator.async_request_refresh()", else an error is logged
entity_write_return ==
    /\ entPc = "write"
    /\ ctlPc = "done"
    /\ entPc' = "done"
    /\ entLog' = IF ctlRet = RetBool(TRUE) THEN Append(entLog, "refresh") ELSE entLog
    /\ UNCHANGED <<cfgVars, connVars, regs, pollVars, ctlVars, callVars, entryVars,
                   flowVars, coordVars, entCall, actions>>

\* climate.py
climate_async_set_hvac_mode(hvac_mode) ==
    EntityWrite("climate", "async_set_hvac_mode", hvac_mode,
                IF hvac_mode \in {"off", "fan_only"} THEN "" ELSE "HomeAssistantError",
                "set_operation_mode", IF hvac_mode = "off" THEN 0 ELSE 1)
\* fan_mode is given by its FAN_MODE_TO_VENTILATION level; 5 stands for a
\* mode that is not in FAN_MODES
climate_async_set_fan_mode(level) ==
    EntityWrite("climate", "async_set_fan_mode", level,
                IF level \in 0..4 THEN "" ELSE "HomeAssistantError",
                "set_ventilation_level", level)
climate_async_set_temperature(temperature) ==
    EntityWrite("climate", "async_set_temperature", temperature,
                IF temperature < TARGET_TEMP_MIN \/ temperature > TARGET_TEMP_MAX
                THEN "HomeAssistantError" ELSE "",
                "set_target_room_temperature", temperature)

\* select.py: the operation mode select; mode is the option's MODE_TO_VALUE,
\* -1 an option that is not in OPERATION_MODES
select_async_select_option(mode) ==
    EntityWrite("select", "async_select_option", mode,
                IF mode \in 0..OPERATION_MODE_MAX THEN "" ELSE "return",
                "set_operation_mode", mode)

\* number.py: minimum supply temperature, maximum room temperature, room
\* temperature adjustment (raw_value = int(value * 10))
number_supply_temp_min_cool(value) ==
    EntityWrite("number.supply_temp_min_cool", "async_set_native_value", value, "",
                "write_supply_temp_min_cool", value)
number_room_temp_max(value) ==
    EntityWrite("number.room_temp_max", "async_set_native_value", value, "",
                "write_room_temp_max", value)
number_room_temp_adjust(value) ==
    EntityWrite("number.room_temp_adjust", "async_set_native_value", value, "",
                "write_register", Trunc(value, 10))

\* fan.py: MaicoWS320BFan.is_on and .percentage, read from coordinator.data
is_on ==
    IF "power_state" \in DOMAIN data.status /\ ~data.status["power_state"]
    THEN FALSE
    ELSE IF "current_ventilation_level" \in DOMAIN data.status
         THEN data.status["current_ventilation_level"] # 0
         ELSE TRUE
percentage(ventilation_level) ==
    CASE ventilation_level = 0 -> 0
      [] ventilation_level = 1 -> 25
      [] ventilation_level = 2 -> 50
      [] ventilation_level = 3 -> 75
      [] ventilation_level = 4 -> 100
      [] OTHER -> 50

\* async_set_percentage: the level a percentage other than 0 is mapped to
percentage_level(p) ==
    IF p <= 20 THEN 1 ELSE IF p <= 40 THEN 2 ELSE IF p <= 60 THEN 3 ELSE 4

\* async_set_percentage up to its first await: 0 writes level 0; otherwise
\* the device is turned on first if the fan is off, then the level is written
fan_async_set_percentage(p) ==
    /\ EntityStart("fan", "async_set_percentage", p)
    /\ IF p = 0
       THEN /\ entPc' = "write"
            /\ entLog' = <<"write_ventilation_level">>
            /\ api_call("write_ventilation_level", 0)
       ELSE IF ~is_on
            THEN /\ entPc' = "power"
                 /\ entLog' = <<"write_power_state">>
                 /\ api_call("write_power_state", 1)
            ELSE /\ entPc' = "write"
                 /\ entLog' = <<"write_ventilation_level">>
                 /\ api_call("write_ventilation_level", percentage_level(p))

\* write_power_state has returned: on failure the handler returns, otherwise
\* it writes the level
fan_power_return ==
    /\ entPc = "power"
    /\ ctlPc = "done"
    /\ IF ctlRet = RetBool(TRUE)
       THEN /\ entPc' = "write"
            /\ entLog' = Append(entLog, "write_ventilation_level")
            /\ api_call("write_ventilation_level", percentage_level(entCall.arg))
       ELSE /\ entPc' = "done"
            /\ UNCHANGED <<entLog, ctlVars, callVars>>
    /\ UNCHANGED <<cfgVars, connVars, regs, pollVars, entryVars, flowVars, coordVars,
                   entCall, actions>>

\* what the user can ask of the entities
HvacModeArgs == {"off", "fan_only", "heat"}
PercentageArgs == {0, 25, 50, 75, 100}
NumberTempArgs == {800, 2900}
AdjustArgs == {-300, 300}

EntityNext ==
    \/ \E m \in HvacModeArgs : climate_async_set_hvac_mode(m)
    \/ \E l \in {3, 5} : climate_async_set_fan_mode(l)
    \/ \E t \in {1750, 2100} : climate_async_set_temperature(t)
    \/ \E m \in {-1, 2} : select_async_select_option(m)
    \/ \E v \in NumberTempArgs : number_supply_temp_min_cool(v)
    \/ \E v \in NumberTempArgs : number_room_temp_max(v)
    \/ \E v \in AdjustArgs : number_room_temp_adjust(v)
    \/ \E p \in PercentageArgs : fan_async_set_percentage(p)
    \/ fan_power_return
    \/ entity_write_return

NextEntity ==
    \/ async_setup_entry("ok")
    \/ async_config_entry_first_refresh
    \/ get_all_status_resume("ok", BlockCount[Len(results) + 1])
    \/ async_setup_entry_store
    \/ async_setup_entry_finish
    \/ EntityNext
    \/ \E o \in Outcomes : ctl_resume(o, 0)

\* a loaded entry in front of a device whose registers all hold a ventilation
\* level, and the user's actions on its entities
SpecEntity == InitWith({"192.168.1.50"}, {"None"}, 0..4) /\ [][NextEntity]_vars

-----------------------------------------------------------------------------
(* The config flow (config_flow.py): connection type, then the TCP or RTU   *)
(* form, whose submission is validated by connecting to the device.         *)

\* how validate_input can end: its connect() succeeded ("ok"), returned False
\* ("error") or raised ("exception"), or validate_input raised something that
\* is not a CannotConnectError ("other")
Validations == Outcomes \cup {"other"}

\* the client validate_input builds for its probe, once the probe is over:
\* connected and disconnected again, or never connected
ProbeTransport(rtu) == [kind |-> IF rtu THEN "rtu" ELSE "tcp", open |-> FALSE]

\* what async_step_tcp / async_step_rtu put into errors["base"]
FlowError(validation) ==
    IF validation = "ok" THEN ""
    ELSE IF validation = "other" THEN "unknown"
    ELSE "cannot_connect"

\* a flow is started: async_step_user(None) shows the connection type form
async_step_user_form ==
    /\ flowStep \in {"none", "done"}
    /\ submits < MaxSubmits
    /\ flowStep' = "user"
    /\ flowErrors' = ""
    /\ UNCHANGED <<cfgVars, connVars, regs, pollVars, ctlVars, callVars, entryVars, uiVars,
                   flowProbe, flowEntries, submits>>

\* async_step_user(user_input): the form of the chosen connection type
async_step_user(connection_type) ==
    /\ flowStep = "user"
    /\ flowStep' = connection_type
    /\ flowErrors' = ""
    /\ UNCHANGED <<cfgVars, connVars, regs, pollVars, ctlVars, callVars, entryVars, uiVars,
                   flowProbe, flowEntries, submits>>

\* a creating step that takes every validation for a success
FlowSubmit_trusting(step, validation) ==
    /\ flowStep = step
    /\ submits < MaxSubmits
    /\ submits' = submits + 1
    /\ flowProbe' = validation
    /\ transports' = IF validation = "other"
                     THEN transports
                     ELSE Append(transports, ProbeTransport(step = "rtu"))
    /\ flowStep' = "done"
    /\ flowErrors' = ""
    /\ flowEntries' = Append(flowEntries, step)
    /\ UNCHANGED <<cfgVars, client, connected, connectRet, regs, pollVars, ctlVars,
                   callVars, entryVars, uiVars>>

\* async_step_tcp / async_step_rtu with user input: validate_input, then the
\* entry, or the same form again with an error
FlowSubmit(step, validation) ==
    /\ flowStep = step
    /\ submits < MaxSubmits
    /\ submits' = submits + 1
    /\ flowProbe' = validation
    /\ transports' = IF validation = "other"
                     THEN transports
                     ELSE Append(transports, ProbeTransport(step = "rtu"))
    /\ IF validation = "ok"
       THEN /\ flowStep' = "done"
            /\ flowErrors' = ""
            /\ flowEntries' = Append(flowEntries, step)
       ELSE /\ flowStep' = step
            /\ flowErrors' = FlowError(validation)
            /\ UNCHANGED flowEntries
    /\ UNCHANGED <<cfgVars, client, connected, connectRet, regs, pollVars, ctlVars,
                   callVars, entryVars, uiVars>>

async_step_tcp(validation) == FlowSubmit("tcp", validation)
async_step_rtu(validation) == FlowSubmit("rtu", validation)

NextFlow ==
    \/ async_step_user_form
    \/ \E t \in {"tcp", "rtu"} : async_step_user(t)
    \/ \E v \in Validations : async_step_tcp(v)
    \/ \E v \in Validations : async_step_rtu(v)

\* config flows, one after the other
SpecFlow == Init /\ [][NextFlow]_vars


\* device contents that differ in the four fault/info words (401-404)
FaultWords == {0, 9}
FaultContents ==
    {[a \in RegAddrs |-> IF a \in 401..404 THEN f[a] ELSE 0] :
        f \in [401..404 -> FaultWords]}

InitFault == InitDevice({"192.168.1.50"}, {"None"}, FaultContents)

NextFault ==
    \/ \E o \in Outcomes : connect(o)
    \/ disconnect
    \/ PollOkNext

\* polls answered in full, for every combination of fault and info words
SpecFault == InitFault /\ [][NextFault]_vars

-----------------------------------------------------------------------------
(* Properties *)

\* this step starts the API call op
Started(op) == calls' = calls + 1 /\ lastCall' = op

\* the call started by this step returns failure at once, with no request sent
Rejected == ctlPc' = "done" /\ ctlRet' = RetBool(FALSE) /\ ctlLog' = <<>>

\* a poll is over in which all ten reads were sent and answered
PollAnswered == pollPc = "done" /\ Len(pollAnswers) = 10

\* the blocks of the finished poll whose read failed at the transport
FailedBlocks == {i \in 1..10 : ~pollAnswers[i].ok}

\* C1: if the client is connected and every one of the ten block reads of a
\* get_all_status() call fails at the transport, the call returns None and not
\* a snapshot mapping
C1_AbsentWhenAllReadsFail ==
    (PollAnswered /\ FailedBlocks = 1..10) => pollRet.kind = "none"

\* the keys each of the ten blocks populates
C2_BlockFields ==
    << {"room_temp_adjust", "supply_temp_min_cool", "room_temp_max"},
       {"current_ventilation_level", "supply_fan_speed", "extract_fan_speed",
        "current_supply_volume_flow", "current_extract_volume_flow", "filter_status"},
       {"room_temperature", "room_temperature_ext", "inlet_air_temperature",
        "supply_air_temperature", "extract_air_temperature",
        "exhaust_air_temperature", "room_temperature_bus"},
       {"extract_air_humidity", "humidity_sensor_1", "humidity_sensor_2",
        "humidity_sensor_3", "humidity_sensor_4", "co2_sensor_1", "co2_sensor_2",
        "co2_sensor_3", "co2_sensor_4", "voc_sensor_1", "voc_sensor_2",
        "voc_sensor_3", "voc_sensor_4", "humidity_bus", "air_quality_bus"},
       {"operation_mode", "boost_ventilation", "season", "target_temperature",
        "ventilation_level"},
       {"supply_fan_state", "extract_fan_state", "bypass_status", "ptc_heater",
        "switch_contact", "post_heater_relay", "brine_pump", "three_way_damper",
        "zone_damper"},
       {"fault_status", "info_messages"},
       {"filter_device_months", "filter_outdoor_months", "filter_room_months",
        "filter_duration", "volume_flow_reduced", "volume_flow_normal",
        "volume_flow_intensive"},
       {"hours_humidity", "hours_reduced", "hours_nominal", "hours_intensive",
        "hours_total"},
       {"room_temp_selection"} >>

\* a finished poll in which a non-empty proper subset of the reads failed and
\* the others were answered in full
C2_PartialFailure ==
    /\ PollAnswered
    /\ FailedBlocks # {}
    /\ FailedBlocks # 1..10
    /\ \A i \in (1..10) \ FailedBlocks : pollAnswers[i].n = BlockCount[i]

\* C2: block independence: when a non-empty proper subset F of the ten reads
\* fails and the others return full-length data, get_all_status returns a
\* snapshot with every field of each succeeded block and no field of a block
\* in F; with only the ventilation block failing, room_temperature and
\* operation_mode are present, current_ventilation_level and filter_status are not
C2_BlockIndependence ==
    C2_PartialFailure =>
        /\ pollRet.kind = "snapshot"
        /\ \A i \in (1..10) \ FailedBlocks :
              C2_BlockFields[i] \subseteq DOMAIN pollRet.status
        /\ \A i \in FailedBlocks :
              C2_BlockFields[i] \cap DOMAIN pollRet.status = {}
        /\ FailedBlocks = {2} =>
              /\ {"room_temperature", "operation_mode"} \subseteq DOMAIN pollRet.status
              /\ {"current_ventilation_level", "filter_status"}
                    \cap DOMAIN pollRet.status = {}

\* only the ventilation block's read failed, and the poll returned a snapshot
C2_Witness ==
    /\ C2_PartialFailure
    /\ FailedBlocks = {2}
    /\ pollRet.kind = "snapshot"
    /\ "room_temperature" \in DOMAIN pollRet.status

\* C3: while the connection flag is Disconnected, read_holding_register,
\* read_holding_registers, write_register and get_all_status return their
\* failure value at once, send nothing to the pymodbus client and leave the
\* connection as it is (no implicit reconnect)
C3_NoIOWhenDisconnected ==
    [][ ~connected =>
          /\ Started("write_register") =>
                Rejected /\ UNCHANGED <<connVars, pollLog>>
          /\ Started("read_holding_register") \/ Started("read_holding_registers") =>
                /\ ctlPc' = "done" /\ ctlRet' = RetRead(None) /\ ctlLog' = <<>>
                /\ UNCHANGED <<connVars, pollLog>>
          /\ Started("get_all_status") =>
                /\ pollPc' = "done" /\ pollRet' = RetNone /\ pollLog' = <<>>
                /\ UNCHANGED <<connVars, ctlLog>> ]_vars

\* write_register was called after a connect and a disconnect, and failed
\* without a request
C3_Witness ==
    /\ lastCall = "write_register"
    /\ ~connected
    /\ connectRet = "True"
    /\ ctlPc = "done"
    /\ ctlRet = RetBool(FALSE)
    /\ ctlLog = <<>>

\* C4: setting the ventilation level to an integer outside 0..4 fails with no
\* write; to a level in 0..4 on a connected client it sends exactly one write,
\* of the level to register 554
C4_VentilationLevel ==
    [][ /\ \A op \in {"set_ventilation_level", "write_ventilation_level"} :
              Started(op) =>
                 /\ ctlCall'.arg \notin 0..4 => Rejected
                 /\ ctlCall'.arg \in 0..4 /\ connected =>
                       /\ ctlPc' = "wait"
                       /\ ctlLog' = <<WriteRequest(554, ctlCall'.arg)>>
        /\ ctlPc = "wait" => ctlLog' = ctlLog ]_vars

\* set_ventilation_level(4) has written 4 to register 554 and returned True
C4_Witness ==
    /\ ctlCall.op = "set_ventilation_level"
    /\ ctlCall.arg = 4
    /\ ctlPc = "done"
    /\ ctlRet = RetBool(TRUE)
    /\ ctlLog = <<WriteRequest(554, 4)>>

\* C5 as stated: set_target_room_temperature(18.0) writes 180 to register 553,
\* (25.5) writes 255 to register 553, (17.9) is rejected with no write
C5_TargetTemperatureAsStated ==
    [][ Started("set_target_room_temperature") /\ connected =>
          /\ ctlCall'.arg = 1800 => ctlLog' = <<WriteRequest(553, 180)>>
          /\ ctlCall'.arg = 2550 => ctlLog' = <<WriteRequest(553, 255)>>
          /\ ctlCall'.arg = 1790 => Rejected ]_vars

\* C5 amended: set_target_room_temperature(18.0) writes 180 to register 553,
\* (25.0) writes 250 to register 553; (25.5), above the maximum of 25.0, and
\* (17.9), below the minimum of 18.0, are rejected with no write
C5_TargetTemperature ==
    [][ Started("set_target_room_temperature") /\ connected =>
          /\ ctlCall'.arg = 1800 => ctlLog' = <<WriteRequest(553, 180)>>
          /\ ctlCall'.arg = 2500 => ctlLog' = <<WriteRequest(553, 250)>>
          /\ ctlCall'.arg = 2550 => Rejected
          /\ ctlCall'.arg = 1790 => Rejected ]_vars

\* set_target_room_temperature(25.5) was rejected on a connected client
C5_Witness ==
    /\ ctlCall.op = "set_target_room_temperature"
    /\ ctlCall.arg = 2550
    /\ lastCall = "set_target_room_temperature"
    /\ connected
    /\ ctlPc = "done"
    /\ ctlRet = RetBool(FALSE)
    /\ ctlLog = <<>>

\* the declared domain of each control operation's parameter (temperatures in
\* hundredths of a degree)
C6_Domain ==
    [op \in {"set_operation_mode", "set_ventilation_level",
             "set_target_room_temperature", "set_season",
             "write_supply_temp_min_cool", "set_room_temp_selection",
             "set_filter_device_months", "set_filter_outdoor_months",
             "set_filter_room_months", "write_bus_humidity",
             "write_bus_air_quality"} |->
        CASE op = "set_operation_mode" -> 0..5
          [] op = "set_ventilation_level" -> 0..4
          [] op = "set_target_room_temperature" -> 1800..2500
          [] op = "set_season" -> {0, 1}
          [] op = "write_supply_temp_min_cool" -> 800..2900
          [] op = "set_room_temp_selection" -> 0..3
          [] op = "set_filter_device_months" -> 3..12
          [] op = "set_filter_outdoor_months" -> 3..18
          [] op = "set_filter_room_months" -> 1..6
          [] op = "write_bus_humidity" -> 0..100
          [] op = "write_bus_air_quality" -> 0..5000]

\* C6: a control operation called with an input outside its parameter's
\* declared domain returns failure and sends no write
C6_OutOfDomainRejected ==
    (ctlCall.op \in DOMAIN C6_Domain /\ ctlCall.arg \notin C6_Domain[ctlCall.op]) =>
        /\ ctlPc = "done"
        /\ ctlRet = RetBool(FALSE)
        /\ ctlLog = <<>>

\* the poll is over and began after the last call, a write to register 301 or
\* 302, had returned True
C7_PollAfterWrite ==
    /\ pollPc = "done"
    /\ pollRet.kind = "snapshot"
    /\ ctlPc = "done"
    /\ ctlCall.seq = pollBase
    /\ ctlCall.op \in {"write_supply_temp_min_cool", "write_room_temp_max"}
    /\ ctlRet = RetBool(TRUE)

\* C7: write_supply_temp_min_cool(t) writes the whole-degree t unscaled to
\* register 301 (15 -> 15), write_room_temp_max(t) writes t * 10 to register
\* 302 (15 -> 150); the aggregator decodes 301 as the raw integer and 302 as
\* signed tenths, so the next snapshot shows the value either one wrote
C7_AsymmetricScaling ==
    /\ [][ connected =>
             /\ Started("write_supply_temp_min_cool") /\ ctlCall'.arg % 100 = 0 =>
                   ctlLog' = <<WriteRequest(301, ctlCall'.arg \div 100)>>
             /\ Started("write_room_temp_max") /\ ctlCall'.arg % 10 = 0 =>
                   ctlLog' = <<WriteRequest(302, ctlCall'.arg \div 10)>>
             /\ Started("write_supply_temp_min_cool") /\ ctlCall'.arg = 1500 =>
                   ctlLog' = <<WriteRequest(301, 15)>>
             /\ Started("write_room_temp_max") /\ ctlCall'.arg = 1500 =>
                   ctlLog' = <<WriteRequest(302, 150)>> ]_vars
    /\ [](C7_PollAfterWrite /\ "supply_temp_min_cool" \in DOMAIN pollRet.status =>
             /\ ctlCall.op = "write_supply_temp_min_cool" /\ ctlCall.arg % 100 = 0 =>
                   pollRet.status["supply_temp_min_cool"] * 100 = ctlCall.arg
             /\ ctlCall.op = "write_room_temp_max" /\ ctlCall.arg % 10 = 0 =>
                   pollRet.status["room_temp_max"] = Tenths(ctlCall.arg \div 10))

\* write_supply_temp_min_cool(15) returned True and the poll after it shows 15
C7_Witness ==
    /\ C7_PollAfterWrite
    /\ ctlCall.op = "write_supply_temp_min_cool"
    /\ ctlCall.arg = 1500
    /\ "supply_temp_min_cool" \in DOMAIN pollRet.status
    /\ pollRet.status["supply_temp_min_cool"] = 15

\* C8: when connect() returns False the connected flag is False afterwards, and
\* when it returns True the flag is True, after any sequence of connect and
\* disconnect calls
C8_FlagFollowsConnect ==
    lastCall = "connect" =>
        /\ connectRet = "False" => ~connected
        /\ connectRet = "True" => connected

\* C9: disconnect() can be called in any state and leaves the flag
\* Disconnected; a second disconnect() in a row changes nothing more; a later
\* successful connect() makes the client Connected again
C9_DisconnectIdempotent ==
    [][ /\ Started("disconnect") =>
              /\ ~connected'
              /\ lastCall = "disconnect" => UNCHANGED <<transports, client, connected>>
        /\ Started("connect") /\ connectRet' = "True" => connected' ]_vars

\* disconnect() was called twice in a row on a client that had connected
C9_Witness ==
    /\ lastCall = "disconnect"
    /\ calls = 3
    /\ Len(transports) = 1
    /\ connectRet = "True"
    /\ ctlPc = "idle"
    /\ pollPc = "idle"
    /\ ~connected
    /\ ~transports[client].open

\* C10: a client constructed with both host and serial_port, or with neither,
\* is rejected before any TCP or serial client object is constructed
C10_BadConfigRejected ==
    ((host = "None") = (serial_port = "None")) => transports = <<>>

\* the operations of ControlsMixin
C11_ControlOps ==
    {"set_operation_mode", "set_ventilation_level", "set_target_room_temperature",
     "write_supply_temp_min_cool", "write_room_temp_max", "set_season",
     "set_boost_ventilation", "reset_filter_device", "reset_filter_outdoor",
     "reset_filter_room", "reset_error", "set_room_temp_selection",
     "write_external_room_temp", "write_bus_room_temp", "write_bus_humidity",
     "write_bus_air_quality", "set_filter_device_months",
     "set_filter_outdoor_months", "set_filter_room_months"}

\* the input is in the operation's declared domain, when it has one
C11_ValidInput(op, arg) == op \in DOMAIN C6_Domain => arg \in C6_Domain[op]

\* C11: a control operation called with a valid input on a connected client
\* sends exactly one write request; when that request fails (error response or
\* exception) the operation returns False, sends no second request and leaves
\* the connection flag alone; when it succeeds the operation returns True
C11_OneWriteNoRetry ==
    [][ /\ \A op \in C11_ControlOps :
              Started(op) /\ connected /\ C11_ValidInput(op, ctlCall'.arg) =>
                 /\ ctlPc' = "wait"
                 /\ Len(ctlLog') = 1
                 /\ ctlLog'[1].kind = "write"
        /\ \A o \in Outcomes :
              ctlCall.op \in C11_ControlOps /\ ctl_resume(o, 0) =>
                 /\ ctlPc' = "done"
                 /\ ctlLog' = ctlLog
                 /\ UNCHANGED connVars
                 /\ ctlRet' = RetBool(o = "ok") ]_vars

\* set_season(1) sent its one write, the write failed and False came back
C11_Witness ==
    /\ ctlCall.op = "set_season"
    /\ ctlCall.arg = 1
    /\ ctlPc = "done"
    /\ ctlRet = RetBool(FALSE)
    /\ ctlLog = <<WriteRequest(552, 1)>>
    /\ connected

\* C12: no two requests are in flight on the same connection: a poll's read
\* and a control call's request never both await their answer on one client
\* object
C12_OneRequestInFlight ==
    ~(pollPc = "wait" /\ ctlPc = "wait" /\ pollVia = ctlReq.via)

\* the three enum fields: key, first register of the block read, block number,
\* number of codes in the table
C13_Fields ==
    { [key |-> "operation_mode", register |-> 550, block |-> 5, codes |-> 6],
      [key |-> "season", register |-> 552, block |-> 5, codes |-> 2],
      [key |-> "room_temp_selection", register |-> 109, block |-> 10, codes |-> 4] }

\* a finished poll whose read of the field's block was answered, with a code
\* in the register that the field's table does not hold
C13_UnknownCode(f) ==
    /\ PollAnswered
    /\ pollAnswers[f.block].ok
    /\ regs[f.register] \notin 0..(f.codes - 1)

C14_PowerStateDerived ==
    pollPc = "done" /\ pollRet.kind = "snapshot" =>
        LET status == pollRet.status
        IN /\ "power_state" \in DOMAIN status =>
                 (status["power_state"] <=>
                     /\ "operation_mode" \in DOMAIN status
                     /\ status["operation_mode"] # "off")
           /\ "operation_mode" \notin DOMAIN status =>
                 "power_state" \notin DOMAIN status

\* a poll is over whose ten reads were all answered in full
C15_FullPoll ==
    /\ PollAnswered
    /\ FailedBlocks = {}
    /\ pollRet.kind = "snapshot"

\* C15: fault_status is "no_fault" iff both error words (401, 402) are zero and
\* otherwise "error_hi_{hi}_lo_{lo}"; info_messages is "no_info" iff both info
\* words (403, 404) are zero and otherwise "info_hi_{hi}_lo_{lo}"; with
\* all-zero registers the snapshot has "no_fault", "no_info", operation_mode
\* "off" and power_state false
C15_FaultInfo ==
    C15_FullPoll =>
        LET status == pollRet.status
        IN /\ (status["fault_status"] = "no_fault") <=> (regs[401] = 0 /\ regs[402] = 0)
           /\ status["fault_status"] # "no_fault" =>
                 status["fault_status"] = "error_hi_" \o ToString(regs[401])
                                           \o "_lo_" \o ToString(regs[402])
           /\ (status["info_messages"] = "no_info") <=> (regs[403] = 0 /\ regs[404] = 0)
           /\ status["info_messages"] # "no_info" =>
                 status["info_messages"] = "info_hi_" \o ToString(regs[403])
                                            \o "_lo_" \o ToString(regs[404])
           /\ (\A a \in RegAddrs : regs[a] = 0) =>
                 /\ status["fault_status"] = "no_fault"
                 /\ status["info_messages"] = "no_info"
                 /\ status["operation_mode"] = "off"
                 /\ status["power_state"] = FALSE

\* a full poll of a device with error words (0, 9) and info words (9, 0)
C15_Witness ==
    /\ C15_FullPoll
    /\ regs[401] = 0 /\ regs[402] = 9 /\ regs[403] = 9 /\ regs[404] = 0
    /\ pollRet.status["fault_status"] = "error_hi_0_lo_9"
    /\ pollRet.status["info_messages"] = "info_hi_9_lo_0"

\* the two's-complement reading of a 16-bit word
C16_Signed(w) == IF w \in 0..32767 THEN w ELSE w - 65536

\* C16: to_signed maps every word w in 0..32767 to w and every w in
\* 32768..65535 to w - 65536, and the aggregator's private to_temp makes the
\* same reinterpretation before dividing by 10, as MaicoWSClient.to_temp does
C16_SignedWords ==
    ctlPc = "done" /\ ctlCall.op \in {"to_signed", "MaicoWSClient.to_temp", "to_temp"} =>
        /\ ctlCall.arg \in Word
        /\ ctlCall.op = "to_signed" => ctlRet = RetInt(C16_Signed(ctlCall.arg))
        /\ ctlCall.op = "MaicoWSClient.to_temp" =>
              ctlRet = RetTemp(Tenths(C16_Signed(ctlCall.arg)))
        /\ ctlCall.op = "to_temp" =>
              /\ ctlRet = RetTemp(Tenths(C16_Signed(ctlCall.arg)))
              /\ ctlRet.value = MaicoWSClient_to_temp(ctlCall.arg)

\* the aggregator's to_temp has turned the word 32768 into -3276.8
C16_Witness ==
    /\ ctlPc = "done"
    /\ ctlCall.op = "to_temp"
    /\ ctlCall.arg = 32768
    /\ ctlRet = RetTemp(Tenths(-32768))

\* the temperature writes with a tenths scaling
C17_TempWrites == {"write_external_room_temp", "write_bus_room_temp", "write_room_temp_max"}

\* C17: for a temperature t in steps of 0.1, negative ones included, the raw
\* value the temperature writes encode for t is a 16-bit register word that
\* to_temp decodes back to t
C17_TemperatureRoundTrip ==
    (ctlCall.op \in C17_TempWrites /\ ctlCall.arg % 10 = 0 /\ Len(ctlLog) = 1) =>
        /\ ctlLog[1].value \in Word
        /\ to_temp(ctlLog[1].value) = Tenths(ctlCall.arg \div 10)

\* this step is a setup attempt whose connect() returned ret
C18_SetupConnect(ret) == setups' = setups + 1 /\ connectRet' = ret

\* C18: when the connect of async_setup_entry fails (returns False or raises),
\* the setup ends not ready (SETUP_RETRY) with no coordinator stored and no
\* platform set up; an entry waiting for a retry has neither, and its next
\* attempt can be made and, with the device reachable, loads the entry
C18_SetupNotReady ==
    /\ [][ /\ C18_SetupConnect("False") =>
                 /\ entryState' = "setup_retry"
                 /\ setupPc' = "idle"
                 /\ EntryId \notin hassData'
                 /\ EntryId \notin platforms'
           /\ entryState = "setup_retry" /\ C18_SetupConnect("True") =>
                 entryState' = "setup_in_progress"
           /\ setupPc = "refresh" /\ setupPc' # "refresh" /\ pollRet.kind = "snapshot" =>
                 setupPc' = "forward" /\ EntryId \in hassData'
           /\ setupPc = "forward" /\ setupPc' # "forward" =>
                 entryState' = "loaded" /\ EntryId \in hassData' ]_vars
    /\ [](entryState = "setup_retry" =>
             /\ EntryId \notin hassData
             /\ EntryId \notin platforms
             /\ setups < MaxSetups => ENABLED async_setup_entry("ok"))

\* the first setup failed at connect, the second one loaded the entry
C18_Witness ==
    /\ entryState = "loaded"
    /\ entryLog = <<"connect", "not_ready", "connect", "first_refresh", "store", "forward">>
    /\ EntryId \in hassData

\* the last events of the entry's log
C19_LogEnds(suffix) ==
    /\ Len(entryLog) >= Len(suffix)
    /\ SubSeq(entryLog, Len(entryLog) - Len(suffix) + 1, Len(entryLog)) = suffix

\* C19: after a successful async_setup_entry the coordinator is stored under
\* the entry id, the setup having connected once, before the first refresh;
\* after async_unload_entry the client has been disconnected and the entry id
\* is no longer stored; a coordinator is stored only between a successful
\* setup (from its last step, the forwarding of the platforms) and the unload
C19_EntryLifecycle ==
    /\ (EntryId \in hassData) <=> (entryState = "loaded" \/ setupPc = "forward")
    /\ entryState = "loaded" =>
          C19_LogEnds(<<"connect", "first_refresh", "store", "forward">>)
    /\ (entryState = "not_loaded" /\ entryLog # <<>>) =>
          /\ C19_LogEnds(<<"disconnect", "pop", "unload">>)
          /\ ~connected
          /\ ~transports[client].open

\* an entry was set up and then unloaded
C19_Witness ==
    /\ entryState = "not_loaded"
    /\ entryLog = <<"connect", "first_refresh", "store", "forward",
                    "disconnect", "pop", "unload">>
    /\ hassData = {}
    /\ ~connected

\* this step submits the TCP or RTU form
C20_Submit == submits' = submits + 1

\* C20: a config entry is created only after validate_input connected to the
\* device; when the connect returns False or raises the same step's form is
\* shown again with base "cannot_connect", on any other exception with base
\* "unknown"; in both cases no entry is created and the form can be submitted
\* again
C20_ConfigFlow ==
    /\ [][ /\ flowEntries' # flowEntries => C20_Submit /\ flowProbe' = "ok"
           /\ C20_Submit /\ flowProbe' = "ok" =>
                 /\ flowStep' = "done"
                 /\ flowEntries' = Append(flowEntries, flowStep)
           /\ C20_Submit /\ flowProbe' \in {"error", "exception"} =>
                 /\ flowStep' = flowStep
                 /\ flowErrors' = "cannot_connect"
                 /\ flowEntries' = flowEntries
           /\ C20_Submit /\ flowProbe' = "other" =>
                 /\ flowStep' = flowStep
                 /\ flowErrors' = "unknown"
                 /\ flowEntries' = flowEntries ]_vars
    /\ [](flowErrors # "" /\ submits < MaxSubmits =>
             /\ flowStep \in {"tcp", "rtu"}
             /\ flowStep = "tcp" => ENABLED async_step_tcp("ok")
             /\ flowStep = "rtu" => ENABLED async_step_rtu("ok"))

\* the TCP form was submitted twice: the device did not answer the first time,
\* and the second submission created the entry
C20_Witness ==
    /\ flowStep = "done"
    /\ submits = 2
    /\ flowEntries = <<"tcp">>
    /\ flowProbe = "ok"
    /\ Len(transports) = 2

\* the read primitives of MaicoWSClient
C21_ReadOps == {"read_holding_register", "read_holding_registers"}

\* C21: a failing register read (error response or any exception of the
\* underlying client) makes the read primitive return None, after exactly one
\* request to the underlying client (no retry), with the connection flag and
\* the client left as they were
C21_FailedReadReturnsNone ==
    [][ /\ \A op \in C21_ReadOps :
              Started(op) /\ connected =>
                 /\ ctlPc' = "wait"
                 /\ Len(ctlLog') = 1
                 /\ ctlLog'[1].kind = "read"
        /\ \A o \in Outcomes \ {"ok"} :
              ctlCall.op \in C21_ReadOps /\ ctl_resume(o, ReqCount(ctlReq.req)) =>
                 /\ ctlPc' = "done"
                 /\ ctlRet' = RetRead(None)
                 /\ ctlLog' = ctlLog
                 /\ Len(ctlLog') = 1
                 /\ UNCHANGED connVars ]_vars

\* read_holding_register(109) sent one request, it failed, and None came back
C21_Witness ==
    /\ ctlCall.op = "read_holding_register"
    /\ ctlPc = "done"
    /\ ctlRet = RetRead(None)
    /\ ctlLog = <<ReadRequest(109, 1)>>
    /\ connected

\* the i-th read request of a poll
C22_Request(i) == ReadRequest(BlockStart[i], BlockCount[i])

\* the requests of the poll so far are the first ones of the fixed sequence
C22_InOrder ==
    /\ Len(pollLog) <= NumBlocks
    /\ \A i \in 1..Len(pollLog) : pollLog[i] = C22_Request(i)
    /\ pollPc = "wait" => Len(pollLog) = Len(pollAnswers) + 1
    /\ pollPc = "done" => Len(pollLog) = Len(pollAnswers)
    /\ PollAnswered => pollLog = [i \in 1..NumBlocks |-> C22_Request(i)]

\* C22: a get_all_status() on a connected client issues ten read requests, one
\* after another, for 300, 650, 700, 750, 550, 800, 401, 150, 850, 109 with
\* counts 3, 8, 8, 15, 5, 9, 4, 10, 10, 1; whatever the outcome of a read, the
\* next request of the sequence follows it, and the poll ends after the tenth
C22_TenReadsInOrder ==
    /\ [] C22_InOrder
    /\ [][ /\ Started("get_all_status") /\ connected =>
                pollPc' = "wait" /\ pollLog' = <<C22_Request(1)>>
           /\ \A o \in Outcomes :
                 get_all_status_resume(o, BlockCount[Len(results) + 1]) /\ connected =>
                    IF Len(pollLog) < NumBlocks
                    THEN /\ pollPc' = "wait"
                         /\ pollLog' = Append(pollLog, C22_Request(Len(pollLog) + 1))
                    ELSE /\ pollPc' = "done"
                         /\ pollLog' = pollLog ]_vars

\* a poll whose fourth read failed went on to send all ten requests
C22_Witness ==
    /\ PollAnswered
    /\ ~pollAnswers[4].ok
    /\ pollAnswers[5].ok
    /\ Len(pollLog) = 10
    /\ pollLog[4] = ReadRequest(750, 15)
    /\ pollLog[10] = ReadRequest(109, 1)

\* what the ten reads of the finished poll returned, from the answers the
\* poll got and the device's registers
C23_Results ==
    [i \in 1..NumBlocks |->
        IF pollAnswers[i].ok THEN Some(Registers(BlockStart[i], pollAnswers[i].n))
        ELSE None]

\* the coordinator takes the value get_all_status() returned in this step
C23_Update == refreshPc = "wait" /\ refreshPc' = "idle"

\* C23: no incremental merge: the snapshot of a poll is decoded from the
\* blocks that poll itself read, with no field of a block whose read failed in
\* it, whatever the snapshot before held; the coordinator's data becomes that
\* snapshot as a whole; a new poll starts from an empty result list
C23_NoIncrementalMerge ==
    /\ [](PollAnswered =>
             /\ pollRet = process_status_results(C23_Results)
             /\ pollRet.kind = "snapshot" =>
                   \A i \in FailedBlocks :
                      C2_BlockFields[i] \cap DOMAIN pollRet.status = {})
    /\ [][ /\ C23_Update /\ pollRet.kind = "snapshot" =>
                /\ data' = pollRet
                /\ \A i \in FailedBlocks :
                      C2_BlockFields[i] \cap DOMAIN data'.status = {}
           /\ pollPc = "done" /\ pollPc' = "wait" =>
                results' = <<>> /\ pollAnswers' = <<>> ]_vars

\* the coordinator holds a snapshot with the settings block's fields, and the
\* poll of the next refresh, whose settings read failed, returned one without
C23_Witness ==
    /\ refreshPc = "wait"
    /\ PollAnswered
    /\ FailedBlocks = {1}
    /\ data.kind = "snapshot"
    /\ "room_temp_adjust" \in DOMAIN data.status
    /\ pollRet.kind = "snapshot"
    /\ "room_temp_adjust" \notin DOMAIN pollRet.status
    /\ "room_temperature" \in DOMAIN pollRet.status

\* the humidity block of the finished poll came with n registers, 1 <= n <= 15,
\* and every other block came in full or failed
C24_HumBlock(n) ==
    /\ PollAnswered
    /\ pollAnswers[4].ok
    /\ pollAnswers[4].n = n
    /\ \A i \in (1..NumBlocks) \ {4} :
          pollAnswers[i].ok => pollAnswers[i].n = BlockCount[i]

\* the fields of the humidity block, by the least length that carries them
C24_Fields ==
    [n \in {1, 5, 9, 13, 15} |->
        CASE n = 1 -> {"extract_air_humidity"}
          [] n = 5 -> {"humidity_sensor_1", "humidity_sensor_2",
                       "humidity_sensor_3", "humidity_sensor_4"}
          [] n = 9 -> {"co2_sensor_1", "co2_sensor_2", "co2_sensor_3", "co2_sensor_4"}
          [] n = 13 -> {"voc_sensor_1", "voc_sensor_2", "voc_sensor_3", "voc_sensor_4"}
          [] n = 15 -> {"humidity_bus", "air_quality_bus"}]

\* C24: a humidity/CO2/VOC block of any length n in 1..15 is decoded without
\* an exception; the snapshot has extract_air_humidity for n >= 1,
\* humidity_sensor_1..4 only for n >= 5, co2_sensor_1..4 only for n >= 9,
\* voc_sensor_1..4 only for n >= 13, humidity_bus and air_quality_bus only for
\* n = 15; humidity fields are the raw word, CO2 and VOC fields the raw word
\* divided by 10
C24_HumidityDegradation ==
    \A n \in 1..15 :
       C24_HumBlock(n) =>
          /\ pollRet.kind = "snapshot"
          /\ \A m \in DOMAIN C24_Fields :
                IF n >= m
                THEN C24_Fields[m] \subseteq DOMAIN pollRet.status
                ELSE C24_Fields[m] \cap DOMAIN pollRet.status = {}
          /\ pollRet.status["extract_air_humidity"] = regs[750]
          /\ n >= 5 => /\ pollRet.status["humidity_sensor_1"] = regs[751]
                       /\ pollRet.status["humidity_sensor_4"] = regs[754]
          /\ n >= 9 => /\ pollRet.status["co2_sensor_1"] = Tenths(regs[755])
                       /\ pollRet.status["co2_sensor_4"] = Tenths(regs[758])
          /\ n >= 13 => /\ pollRet.status["voc_sensor_1"] = Tenths(regs[759])
                        /\ pollRet.status["voc_sensor_4"] = Tenths(regs[762])
          /\ n = 15 => /\ pollRet.status["humidity_bus"] = regs[763]
                       /\ pollRet.status["air_quality_bus"] = regs[764]

\* a humidity block of 12 registers gave the humidity and CO2 fields, and
\* neither VOC nor bus fields
C24_Witness ==
    /\ C24_HumBlock(12)
    /\ pollRet.kind = "snapshot"
    /\ pollRet.status["co2_sensor_4"] = Tenths(9)
    /\ "voc_sensor_1" \notin DOMAIN pollRet.status
    /\ "humidity_bus" \notin DOMAIN pollRet.status

\* C26: get_all_status() never raises: whatever each of the ten reads
\* returned, None or a register list of any length from 0 to the count asked
\* for, the call ends with a snapshot or with None
C26_NeverRaises ==
    pollPc = "done" => pollRet.kind \in {"snapshot", "none"}

\* the pymodbus client objects this instance built whose connection is open
C28_OpenClients == {i \in 1..Len(transports) : transports[i].open}

\* C28: after any sequence of connect() and disconnect() on one instance, at
\* most one pymodbus client object it created is open, and an open one is the
\* one the instance holds: a connect() on an instance that already holds a
\* client leaves no earlier client open and unreferenced
C28_AtMostOneOpenClient ==
    /\ Cardinality(C28_OpenClients) <= 1
    /\ C28_OpenClients \subseteq {client}

\* the blocks of the poll that were answered with data
C29_BlocksRead == {i \in 1..Len(pollAnswers) : pollAnswers[i].ok}

\* the keys a snapshot built from the blocks in s may hold
C29_FieldsOf(s) == UNION {C2_BlockFields[i] : i \in s} \cup {"power_state"}

C27_UnsignedWords ==
    \A i \in 1..Len(ctlLog) :
       ctlLog[i].kind = "write" /\ ctlCall.op # "write_register" =>
          /\ ctlLog[i].value \in Word
          /\ ctlCall.op \in {"write_external_room_temp", "write_bus_room_temp"} =>
                to_signed(ctlLog[i].value) = temp_tenths_raw(ctlCall.arg)

\* the handler that ran last asked the coordinator for a refresh
C25_Refreshed == \E i \in 1..Len(entLog) : entLog[i] = "refresh"

\* the handler that ran last awaited a control write, and it returned True
C25_WriteSucceeded ==
    /\ Len(entLog) > 0
    /\ entLog[1] \in MaicoWS_methods
    /\ ctlPc = "done"
    /\ ctlCall.op = entLog[1]
    /\ ctlRet = RetBool(TRUE)

\* the climate, select and number entities
C25_Entities ==
    {"climate", "select", "number.supply_temp_min_cool", "number.room_temp_max",
     "number.room_temp_adjust"}

C30_PercentageRoundTrip ==
    ( /\ entCall.handler = "async_set_percentage"
      /\ entPc \in {"write", "done"}
      /\ ctlCall.op = "write_ventilation_level"
      /\ Len(ctlLog) = 1
      /\ "current_ventilation_level" \in DOMAIN data.status
      /\ entCall.arg = percentage(data.status["current_ventilation_level"]) ) =>
        ctlLog[1] = WriteRequest(VENTILATION_LEVEL,
                                 data.status["current_ventilation_level"])

====
